---- MODULE Spec2Model ----
(***************************************************************************)
(* Model of the HTTP handlers of httpd/handler.go: the query coordinator   *)
(* (serveQuery), the index-wait gate (serveWait), the remote mapper        *)
(* session (serveRunMapper), the dump export (serveDump) and the write     *)
(* path (serveWrite).  Each handler is a state machine of its own;          *)
(* one specification per handler runs one request of it against a          *)
(* response writer that follows net/http: the first WriteHeader fixes the   *)
(* status, a Write before any WriteHeader sends 200.                        *)
(***************************************************************************)
EXTENDS Integers, Sequences, FiniteSets, TLC

VARIABLES
    status,        \* status line sent on the response (0: header not sent yet)
    headerCalls,   \* number of explicit w.WriteHeader calls
    body,          \* sequence of w.Write payloads, in order
    flushes,       \* number of w.(http.Flusher).Flush calls
    qpc,           \* serveQuery: "start", "recv", "done", or "failed" (returned before the loop)
    chunked,       \* serveQuery: q.Get("chunked") == "true"
    res,           \* serveQuery: res.Results, the in-memory buffer
    statusWritten, \* serveQuery: local flag of the receive loop
    qIn,           \* serveQuery: every item received from the results channel
    wpc,           \* serveWait: position of the handler
    indexParam,    \* serveWait: text of the :index parameter
    timeoutParam,  \* serveWait: text of the timeout parameter
    notifierOk,    \* serveWait: w implements http.CloseNotifier
    nodeIndex,     \* h.server.Index()
    timedOut,      \* serveWait: flag set by the timer task
    aborted,       \* serveWait: flag set by the cancellation watcher
    timer,         \* serveWait: "none", "never", "armed", "fired" or "stopped"
    timerLeft,     \* ms until an armed timer fires
    timerC,        \* values waiting in timer.C (capacity 1)
    timerG,        \* timer task: "none", "recv", "store" or "done"
    watchG,        \* watcher task: "none", "recv", "store" or "done"
    clientGone,    \* the connection was closed by the client
    sleepLeft,     \* ms left of the current time.Sleep
    wOutcome,      \* serveWait: the branch that ended the request
    idxAtExit,     \* the node's index when the request ended
    idxAtSignal,   \* the node's index when the client left or the timer fired,
                   \* whichever came first (-1: neither has happened)
    sinceFire,     \* ms since the timer fired (saturates above PollInterval)
    sleepsAfterAbort, \* sleeps begun after the aborted flag was set (saturates at 2)
    mpc,           \* serveRunMapper: position of the handler
    mCall,         \* serveRunMapper: call field of the decoded spec
    mChunkSize,    \* serveRunMapper: m.ChunkSize
    mChunkSize0,   \* serveRunMapper: the chunk size the decoded spec carried
    lmLeft,        \* local mapper: NextInterval calls until IsEmpty(TMax) holds
    lmOpens,       \* local mapper: successful Open calls
    lmCloses,      \* local mapper: Close calls
    lmDeferred,    \* serveRunMapper: defer lm.Close() is registered
    mFailedAt,     \* serveRunMapper: the step whose failure ended the session
    dpc,           \* serveDump: position of the handler
    measurements,  \* serveDump: the names showMeasurements returned
    dIdx,          \* serveDump: position of the loop over measurements
    dRecv,         \* serveDump: results received from the current stream
    dLog,          \* serveDump: queries handed to ExecuteQuery and streams drained, in order
    dFailed,       \* serveDump: the step whose failure ended the export
    wrpc,          \* serveWrite: position of the handler
    WriteTrace,    \* h.WriteTrace
    gzipBody,      \* serveWrite: "none", or Content-Encoding gzip with an "ok" or "bad" stream header
    reqBody,       \* serveWrite: the bytes of the (decompressed) request body
    readErrAt,     \* serveWrite: bytes delivered before reading the body fails (-1: no failure)
    requireAuthentication, \* h.requireAuthentication
    user,          \* serveWrite: the principal handed over by authenticate
    dec,           \* serveWrite: what the JSON decoder reads from
    bp,            \* serveWrite: the decoded BatchPoints
    wrChecks,      \* serveWrite: the checks evaluated, in order
    writeSeriesCalls, \* calls of h.server.WriteSeries
    header,        \* w.Header(): the handler's header map
    sentHeader,    \* the headers sent with the status line
    index0,        \* the node's index when the write request arrived
    wrOutcome,     \* serveWrite: the branch that ended the request
    rpc,           \* a routed request: "start", "chain", "inner", "finish" or "done"
    route,         \* the route the mux matched
    reqOrigin,     \* the request carries an Origin header
    acceptGzip,    \* the request's Accept-Encoding contains gzip
    loggingEnabled, \* h.loggingEnabled
    rChain,        \* the wrappers and the handler still to be entered, outermost first
    userCount,     \* h.server.UserCount() as authenticate read it (-1: not read)
    creds,         \* the credentials of the request, as authenticate found them
    aOutcome,      \* authenticate: "none", the check that rejected the request, or "inner"
    bpc,           \* Run: position of the bootstrap
    configExists,  \* Run: config != nil
    brokerDirExists, \* fileExists(config.BrokerDir())
    dataDirExists, \* fileExists(config.DataDir())
    joinFlag,      \* Run: the text of the --join flag
    configJoin,    \* config.JoinURLs()
    cqDisable,     \* config.ContinuousQuery.Disable
    retentionEnabled, \* config.Data.RetentionCheckEnabled
    reportingDisabled, \* config.ReportingDisabled
    initBroker,    \* Run: the broker needs initialization
    initServer,    \* Run: the server needs initialization
    joinURLs,      \* Run: the parsed join URLs
    joinIdx,       \* joinBroker / joinServer: position of the loop over joinURLs
    bootLog        \* the calls Run has made on the broker, the server and the clients, in order

respVars == <<status, headerCalls, body, flushes>>
queryVars == <<qpc, chunked, res, statusWritten, qIn>>
waitVars == <<wpc, indexParam, timeoutParam, notifierOk, nodeIndex, timedOut, aborted,
              timer, timerLeft, timerC, timerG, watchG, clientGone, sleepLeft,
              wOutcome, idxAtExit, idxAtSignal, sinceFire, sleepsAfterAbort>>
mapVars == <<mpc, mCall, mChunkSize, mChunkSize0, lmLeft, lmOpens, lmCloses, lmDeferred, mFailedAt>>
dumpVars == <<dpc, measurements, dIdx, dRecv, dLog, dFailed>>
writeVars == <<wrpc, WriteTrace, gzipBody, reqBody, readErrAt, requireAuthentication, user,
               dec, bp, wrChecks, writeSeriesCalls, header, sentHeader, index0, wrOutcome>>
\* the wait gate's own variables: waitVars without the node's index
waitReqVars == <<wpc, indexParam, timeoutParam, notifierOk, timedOut, aborted,
                 timer, timerLeft, timerC, timerG, watchG, clientGone, sleepLeft,
                 wOutcome, idxAtExit, idxAtSignal, sinceFire, sleepsAfterAbort>>
\* the write path's own variables: writeVars without the header maps
writeReqVars == <<wrpc, WriteTrace, gzipBody, reqBody, readErrAt, requireAuthentication, user,
                  dec, bp, wrChecks, writeSeriesCalls, index0, wrOutcome>>
routeVars == <<rpc, route, reqOrigin, acceptGzip, loggingEnabled, rChain, userCount, creds,
               aOutcome>>
bootVars == <<bpc, configExists, brokerDirExists, dataDirExists, joinFlag, configJoin,
              cqDisable, retentionEnabled, reportingDisabled, initBroker, initServer,
              joinURLs, joinIdx, bootLog>>
vars == <<respVars, queryVars, waitVars, mapVars, dumpVars, writeVars, routeVars, bootVars>>

----------------------------------------------------------------------------
(* Bounds of the model *)

\* no route: the value of route while no routed request is modelled
NoRoute == [name |-> "", method |-> "", pattern |-> "", gzipped |-> FALSE, log |-> FALSE,
            auth |-> FALSE]

MaxResults == 3    \* items the engine sends on one results channel
MaxStmt == 1       \* statement ids are 0..MaxStmt
MaxIndex == 2      \* the node's index stays within 0..MaxIndex

(* HTTP status codes used by the handlers *)
StatusOK == 200
StatusBadRequest == 400
StatusUnauthorized == 401
StatusRequestTimeout == 408
StatusInternalServerError == 500

----------------------------------------------------------------------------
(* Response writer *)

\* w.WriteHeader(code) on a writer whose status line is st.
WriteHeader(st, code) == IF st = 0 THEN code ELSE st

\* the status line after w.Write on a writer whose status line is st.
WriteStatus(st) == IF st = 0 THEN StatusOK ELSE st

\* httpError: WriteHeader(code), then Write of the marshalled error response.
httpError(code) ==
    /\ status' = WriteHeader(status, code)
    /\ headerCalls' = headerCalls + 1
    /\ body' = Append(body, [kind |-> "error", data |-> <<>>])
    /\ UNCHANGED flushes

----------------------------------------------------------------------------
(* Errors: a Go error is its dynamic type and its text, a sequence of words *)

NoErr == [type |-> "nil", msg |-> <<>>]
ErrAuthorize == [type |-> "ErrAuthorize", msg |-> <<"user", "not", "authorized">>]
ErrMeasurementNotFound == [type |-> "error", msg |-> <<"measurement", "cpu", "not", "found">>]
ErrMeasurementNotFoundIn == [type |-> "error", msg |-> <<"db", "measurement", "not", "found", "x">>]
ErrTagNotFound == [type |-> "error", msg |-> <<"unknown", "field", "or", "tag", "name", "x">>]
ErrFieldNotFound == [type |-> "error", msg |-> <<"field", "not", "found", "x">>]
ErrOther == [type |-> "error", msg |-> <<"measurement", "error">>]

Errors == {ErrAuthorize, ErrMeasurementNotFound, ErrMeasurementNotFoundIn,
           ErrTagNotFound, ErrFieldNotFound, ErrOther}

HasPrefix(s, p) == Len(s) >= Len(p) /\ SubSeq(s, 1, Len(p)) = p
HasSuffix(s, p) == Len(s) >= Len(p) /\ SubSeq(s, Len(s) - Len(p) + 1, Len(s)) = p
Contains(s, p) == \E i \in 0..(Len(s) - Len(p)) : SubSeq(s, i + 1, i + Len(p)) = p

isAuthorizationError(err) == err.type = "ErrAuthorize"

isMeasurementNotFoundErrorPrefixOnly(err) == HasPrefix(err.msg, <<"measurement">>)

isMeasurementNotFoundError(err) ==
    \/ HasPrefix(err.msg, <<"measurement">>) /\ HasSuffix(err.msg, <<"not", "found">>)
    \/ Contains(err.msg, <<"measurement", "not", "found">>)

isTagNotFoundError(err) == HasPrefix(err.msg, <<"unknown", "field", "or", "tag", "name">>)

isFieldNotFoundErrorNever(err) == FALSE

isFieldNotFoundError(err) == HasPrefix(err.msg, <<"field", "not", "found">>)

----------------------------------------------------------------------------
(* serveQuery *)

Nil == [nil |-> TRUE]

SeriesLists == {<<>>, <<"s1">>, <<"s2">>}

\* what the engine can send: nil, a result with series, a result with an error
Results ==
    [StatementID : 0..MaxStmt, Series : SeriesLists, Err : {NoErr}]
    \cup [StatementID : 0..MaxStmt, Series : {<<>>}, Err : Errors]

\* the status of the first item of the channel (lines 245-260)
FirstStatus(r) ==
    IF r # Nil /\ r.Err # NoErr
    THEN IF isAuthorizationError(r.Err) THEN StatusUnauthorized
         ELSE IF isMeasurementNotFoundError(r.Err) THEN StatusOK
         ELSE IF isTagNotFoundError(r.Err) THEN StatusOK
         ELSE IF isFieldNotFoundError(r.Err) THEN StatusOK
         ELSE StatusInternalServerError
    ELSE StatusOK

ChunkResultsKeepBuffer(rs, r) == Append(rs, r)

\* chunked mode: res.Results = []*influxdb.Result{r}
ChunkResults(rs, r) == <<r>>

BufferResultNoMerge(rs, r) == Append(rs, r)

BufferResultPrepend(rs, r) ==
    LET l == Len(rs) IN
    IF l = 0 THEN Append(rs, r)
    ELSE IF rs[l].StatementID = r.StatementID
         THEN [rs EXCEPT ![l].Series = r.Series \o rs[l].Series]
         ELSE Append(rs, r)

\* buffered mode: merge r into the last entry or append it (lines 280-288)
BufferResult(rs, r) ==
    LET l == Len(rs) IN
    IF l = 0 THEN Append(rs, r)
    ELSE IF rs[l].StatementID = r.StatementID
         THEN [rs EXCEPT ![l].Series = rs[l].Series \o r.Series]
         ELSE Append(rs, r)

\* the buffer after the receive loop has consumed the items of in, nils skipped
RECURSIVE BufferAll(_)
BufferAll(in) ==
    IF in = <<>> THEN <<>>
    ELSE LET rs == BufferAll(SubSeq(in, 1, Len(in) - 1))
             r == in[Len(in)]
         IN IF r = Nil THEN rs ELSE BufferResult(rs, r)

EnvelopeEmpty(rs) == [kind |-> "envelope", data |-> <<>>]

Envelope(rs) == [kind |-> "envelope", data |-> rs]

\* q is missing or blank (lines 198-202)
QueryMissingQ ==
    /\ qpc = "start"
    /\ httpError(StatusBadRequest)
    /\ qpc' = "failed"
    /\ UNCHANGED <<chunked, res, statusWritten, qIn, dumpVars, routeVars, bootVars, writeVars, waitVars, mapVars>>

\* the parser rejects the query text (lines 208-212)
QueryParseError ==
    /\ qpc = "start"
    /\ httpError(StatusBadRequest)
    /\ qpc' = "failed"
    /\ UNCHANGED <<chunked, res, statusWritten, qIn, dumpVars, routeVars, bootVars, writeVars, waitVars, mapVars>>

\* ExecuteQuery returns an error instead of a channel (lines 228-236)
QueryExecuteError ==
    /\ qpc = "start"
    /\ \E err \in Errors :
          status' = WriteHeader(status,
                        IF isAuthorizationError(err) THEN StatusUnauthorized
                        ELSE StatusInternalServerError)
    /\ headerCalls' = headerCalls + 1
    /\ qpc' = "failed"
    /\ UNCHANGED <<body, flushes, chunked, res, statusWritten, qIn, dumpVars, routeVars, bootVars, writeVars, waitVars, mapVars>>

\* ExecuteQuery returns the results channel (lines 228, 239-240)
QueryExecute ==
    /\ qpc = "start"
    /\ qpc' = "recv"
    /\ UNCHANGED <<respVars, chunked, res, statusWritten, qIn, dumpVars, routeVars, bootVars, writeVars, waitVars, mapVars>>

\* one iteration of the receive loop (lines 243-289)
QueryReceive ==
    /\ qpc = "recv"
    /\ Len(qIn) < MaxResults
    /\ \E r \in Results \cup {Nil} :
          LET st1 == IF statusWritten THEN status
                     ELSE WriteHeader(status, FirstStatus(r))
          IN /\ qIn' = Append(qIn, r)
             /\ headerCalls' = IF statusWritten THEN headerCalls ELSE headerCalls + 1
             /\ statusWritten' = TRUE
             /\ IF r = Nil
                THEN /\ status' = st1
                     /\ UNCHANGED <<body, flushes, res>>
                ELSE IF chunked
                THEN /\ res' = ChunkResults(res, r)
                     /\ body' = Append(body, Envelope(res'))
                     /\ status' = WriteStatus(st1)
                     /\ flushes' = flushes + 1
                ELSE /\ res' = BufferResult(res, r)
                     /\ status' = st1
                     /\ UNCHANGED <<body, flushes>>
    /\ UNCHANGED <<qpc, chunked, dumpVars, routeVars, bootVars, writeVars, waitVars, mapVars>>

\* the channel is closed: the loop ends, the buffer is written (lines 291-295)
QueryClosed ==
    /\ qpc = "recv"
    /\ IF chunked
       THEN UNCHANGED <<status, body>>
       ELSE /\ body' = Append(body, Envelope(res))
            /\ status' = WriteStatus(status)
    /\ qpc' = "done"
    /\ UNCHANGED <<headerCalls, flushes, chunked, res, statusWritten, qIn, dumpVars, routeVars, bootVars, writeVars, waitVars, mapVars>>

NextQuery ==
    \/ QueryMissingQ
    \/ QueryParseError
    \/ QueryExecuteError
    \/ QueryExecute
    \/ QueryReceive
    \/ QueryClosed

InitQuerySpec ==
    /\ status = 0 /\ headerCalls = 0 /\ body = <<>> /\ flushes = 0
    /\ qpc = "start"
    /\ chunked \in BOOLEAN
    /\ res = <<>>
    /\ statusWritten = FALSE
    /\ qIn = <<>>
    /\ wpc = "idle" /\ indexParam = <<>> /\ timeoutParam = <<>> /\ notifierOk = FALSE
    /\ nodeIndex = 0 /\ timedOut = 0 /\ aborted = 0
    /\ timer = "none" /\ timerLeft = 0 /\ timerC = 0 /\ timerG = "none" /\ watchG = "none"
    /\ clientGone = FALSE /\ sleepLeft = 0 /\ wOutcome = "none" /\ idxAtExit = 0 /\ idxAtSignal = -1
    /\ sinceFire = 0 /\ sleepsAfterAbort = 0
    /\ mpc = "idle" /\ mCall = "" /\ mChunkSize = 0 /\ mChunkSize0 = 0
    /\ lmLeft = 0 /\ lmOpens = 0 /\ lmCloses = 0 /\ lmDeferred = FALSE
    /\ mFailedAt = "none"
    /\ dpc = "idle" /\ measurements = <<>> /\ dIdx = 0 /\ dRecv = 0 /\ dLog = <<>>
    /\ dFailed = "none"
    /\ wrpc = "idle" /\ WriteTrace = FALSE /\ gzipBody = "none" /\ reqBody = <<>>
    /\ readErrAt = -1 /\ requireAuthentication = FALSE /\ user = "nil"
    /\ dec = [bytes |-> <<>>, readErr |-> FALSE] /\ bp = [database |-> ""]
    /\ wrChecks = <<>> /\ writeSeriesCalls = 0 /\ header = {} /\ sentHeader = {}
    /\ index0 = 0 /\ wrOutcome = "none"
    /\ rpc = "idle" /\ route = NoRoute /\ reqOrigin = FALSE /\ acceptGzip = FALSE
    /\ loggingEnabled = FALSE /\ rChain = <<>> /\ userCount = -1 /\ creds = "none"
    /\ aOutcome = "none"
    /\ bpc = "idle" /\ configExists = FALSE /\ brokerDirExists = FALSE
    /\ dataDirExists = FALSE /\ joinFlag = <<>> /\ configJoin = <<>> /\ cqDisable = FALSE
    /\ retentionEnabled = FALSE /\ reportingDisabled = FALSE /\ initBroker = FALSE
    /\ initServer = FALSE /\ joinURLs = <<>> /\ joinIdx = 0 /\ bootLog = <<>>

SpecQuery == InitQuerySpec /\ [][NextQuery]_vars

----------------------------------------------------------------------------
(* Properties of serveQuery *)

NonNil(s) == SelectSeq(s, LAMBDA r : r # Nil)

\* every entry written to the client, in order
RECURSIVE Written(_)
Written(b) == IF b = <<>> THEN <<>> ELSE Head(b).data \o Written(Tail(b))

\* results with the same statement id are next to each other
ConsecutiveIds(s) ==
    \A i, k \in 1..Len(s) :
        (i < k /\ s[i].StatementID = s[k].StatementID)
            => \A j \in i..k : s[j].StatementID = s[i].StatementID

\* the statement ids of s, each once, in first-seen order
RECURSIVE FirstSeenIds(_)
FirstSeenIds(s) ==
    IF s = <<>> THEN <<>>
    ELSE LET p == FirstSeenIds(SubSeq(s, 1, Len(s) - 1))
             id == s[Len(s)].StatementID
         IN IF \E i \in 1..Len(p) : p[i] = id THEN p ELSE Append(p, id)

\* the series of all results of s with statement id `id`, in arrival order
RECURSIVE SeriesOfId(_, _)
SeriesOfId(s, id) ==
    IF s = <<>> THEN <<>>
    ELSE (IF Head(s).StatementID = id THEN Head(s).Series ELSE <<>>)
             \o SeriesOfId(Tail(s), id)

\* C1: in buffered mode, for non-nil results whose equal statement ids are
\* consecutive, the one response written holds exactly one entry per distinct
\* statement id, in first-seen order, and each entry's series is the
\* concatenation, in arrival order, of the series of all results with that id.
C1_BufferedOneEntryPerId ==
    (qpc = "done" /\ ~chunked /\ NonNil(qIn) = qIn /\ ConsecutiveIds(qIn))
        => /\ Len(body) = 1
           /\ body[1].kind = "envelope"
           /\ LET out == body[1].data
                  ids == FirstSeenIds(qIn)
              IN /\ Len(out) = Len(ids)
                 /\ \A i \in 1..Len(ids) :
                       /\ out[i].StatementID = ids[i]
                       /\ out[i].Series = SeriesOfId(qIn, ids[i])

C1_Witness ==
    /\ qpc = "done" /\ ~chunked /\ Len(qIn) = 3 /\ NonNil(qIn) = qIn
    /\ qIn[1].StatementID = 0 /\ qIn[1].Series = <<"s2">>
    /\ qIn[2].StatementID = 0 /\ qIn[2].Series = <<"s1">>
    /\ qIn[3].StatementID = 1 /\ qIn[3].Series = <<"s1">>
    /\ Len(body) = 1 /\ Len(body[1].data) = 2
    /\ body[1].data[1].Series = <<"s2", "s1">>

\* C2 as claimed: for every sequence of results, in any order of statement
\* ids, the buffered response has at most one entry per distinct statement id
\* and that entry holds the concatenation of all results with that id.
C2_OneEntryPerIdAnyOrder ==
    (qpc = "done" /\ ~chunked)
        => LET out == body[1].data
               s == NonNil(qIn)
           IN /\ \A i, j \in 1..Len(out) :
                     i # j => out[i].StatementID # out[j].StatementID
              /\ \A i \in 1..Len(out) :
                     out[i].Series = SeriesOfId(s, out[i].StatementID)

\* the number of the run of equal statement ids that position k of s lies in
RunIndex(s, k) ==
    Cardinality({j \in 1..k : j = 1 \/ s[j].StatementID # s[j - 1].StatementID})

\* the series of the results of run m of s, in arrival order
RECURSIVE RunSeriesFrom(_, _, _)
RunSeriesFrom(s, m, k) ==
    IF k > Len(s) THEN <<>>
    ELSE (IF RunIndex(s, k) = m THEN s[k].Series ELSE <<>>) \o RunSeriesFrom(s, m, k + 1)

\* C2 as amended: for every sequence of results (nils skipped), the buffered
\* response has exactly one entry per maximal run of consecutive results with
\* the same statement id, in order, holding the concatenation of that run's
\* series; entries next to each other differ in id, and the ids of the
\* entries are distinct when equal ids arrive consecutively.
C2_OneEntryPerRun ==
    (qpc = "done" /\ ~chunked)
        => /\ Len(body) = 1
           /\ LET out == body[1].data
                  s == NonNil(qIn)
              IN /\ Len(out) = RunIndex(s, Len(s))
                 /\ \A k \in 1..Len(s) :
                       out[RunIndex(s, k)].StatementID = s[k].StatementID
                 /\ \A m \in 1..Len(out) : out[m].Series = RunSeriesFrom(s, m, 1)
                 /\ \A m \in 1..(Len(out) - 1) :
                       out[m].StatementID # out[m + 1].StatementID
                 /\ ConsecutiveIds(s) =>
                       \A i, j \in 1..Len(out) :
                           i # j => out[i].StatementID # out[j].StatementID

C2_Witness ==
    /\ qpc = "done" /\ ~chunked /\ Len(qIn) = 3 /\ NonNil(qIn) = qIn
    /\ qIn[1].StatementID = 0 /\ qIn[1].Series = <<"s1">>
    /\ qIn[2].StatementID = 1 /\ qIn[2].Series = <<"s2">>
    /\ qIn[3].StatementID = 0 /\ qIn[3].Series = <<"s2">>
    /\ Len(body) = 1 /\ Len(body[1].data) = 3

\* what a client makes of the entries it received: entries next to each other
\* with the same statement id become one, their series concatenated
RECURSIVE ClientMerge(_)
ClientMerge(s) ==
    IF Len(s) <= 1 THEN s
    ELSE LET rest == ClientMerge(Tail(s))
         IN IF Head(s).StatementID = rest[1].StatementID
            THEN <<[Head(s) EXCEPT !.Series = @ \o rest[1].Series]>> \o Tail(rest)
            ELSE <<Head(s)>> \o rest

\* C3: for every input sequence, the one-result envelopes of chunked mode,
\* once the client has concatenated the series of consecutive envelopes with
\* the same statement id, equal the result list that buffered mode writes in
\* its single envelope for the same input.
C3_ChunkedEqualsBuffered ==
    qpc = "done"
        => IF chunked
           THEN /\ \A i \in 1..Len(body) :
                      body[i].kind = "envelope" /\ Len(body[i].data) = 1
                /\ ClientMerge(Written(body)) = BufferAll(qIn)
           ELSE body = <<Envelope(BufferAll(qIn))>>

C3_Witness ==
    /\ qpc = "done" /\ chunked /\ Len(qIn) = 3
    /\ qIn[1] # Nil /\ qIn[2] = Nil /\ qIn[3] # Nil
    /\ qIn[1].StatementID = qIn[3].StatementID
    /\ qIn[1].Series = <<"s1">> /\ qIn[3].Series = <<"s2">>
    /\ Len(body) = 2
    /\ Len(BufferAll(qIn)) = 1

\* the status the taxonomy gives to the first item of the channel
TaxonomyStatus(r) ==
    IF r = Nil THEN StatusOK
    ELSE IF r.Err = NoErr THEN StatusOK
    ELSE IF r.Err = ErrAuthorize THEN StatusUnauthorized
    ELSE IF r.Err \in {ErrMeasurementNotFound, ErrMeasurementNotFoundIn,
                       ErrTagNotFound, ErrFieldNotFound} THEN StatusOK
    ELSE StatusInternalServerError

SchemaAbsence(r) ==
    /\ r # Nil
    /\ r.Err \in {ErrMeasurementNotFound, ErrMeasurementNotFoundIn,
                  ErrTagNotFound, ErrFieldNotFound}

\* C5 as claimed: when the first result carries a measurement, tag or field
\* not found error, the status is success and the erroring result is not part
\* of the results written: the client receives what it would have received
\* had the stream begun after that result.
C5_SchemaAbsenceEmptyBody ==
    (qpc = "done" /\ Len(qIn) >= 1 /\ SchemaAbsence(qIn[1]))
        => /\ status = StatusOK
           /\ ClientMerge(Written(body)) = ClientMerge(NonNil(Tail(qIn)))

\* C5 as amended: when the first result carries a measurement, tag or field
\* not found error, the status is success and the erroring result is written
\* to the client as the first entry of the results, its error included.
C5_SchemaAbsenceWritten ==
    (qpc = "done" /\ Len(qIn) >= 1 /\ SchemaAbsence(qIn[1]))
        => /\ status = StatusOK
           /\ Written(body) # <<>>
           /\ Written(body)[1].StatementID = qIn[1].StatementID
           /\ Written(body)[1].Err = qIn[1].Err

C5_Witness ==
    /\ qpc = "done" /\ Len(qIn) = 1 /\ qIn[1] # Nil
    /\ qIn[1].Err = ErrFieldNotFound
    /\ status = StatusOK
    /\ Written(body) = <<qIn[1]>>

----------------------------------------------------------------------------
(* serveWait *)

PollInterval == 10   \* time.Sleep(10 * time.Millisecond)

Digits == {"0", "1", "2", "3", "4", "5", "6", "7", "8", "9"}

DigitValue(c) ==
    CASE c = "0" -> 0 [] c = "1" -> 1 [] c = "2" -> 2 [] c = "3" -> 3 [] c = "4" -> 4
      [] c = "5" -> 5 [] c = "6" -> 6 [] c = "7" -> 7 [] c = "8" -> 8 [] c = "9" -> 9

AllDigits(s) == s # <<>> /\ \A i \in 1..Len(s) : s[i] \in Digits

RECURSIVE DigitsValue(_)
DigitsValue(s) ==
    IF s = <<>> THEN 0
    ELSE 10 * DigitsValue(SubSeq(s, 1, Len(s) - 1)) + DigitValue(s[Len(s)])

\* index, _ := strconv.ParseUint(text, 10, 64): 0 when the text is no unsigned number
ParseUint(s) == IF AllDigits(s) THEN DigitsValue(s) ELSE 0

AtoiIgnoresSign(s) ==
    IF s # <<>> /\ s[1] \in {"+", "-"}
    THEN IF AllDigits(Tail(s)) THEN DigitsValue(Tail(s)) ELSE 0
    ELSE IF AllDigits(s) THEN DigitsValue(s) ELSE 0

\* timeout, _ := strconv.Atoi(text): 0 when the text is no number
Atoi(s) ==
    IF s # <<>> /\ s[1] \in {"+", "-"}
    THEN IF AllDigits(Tail(s))
         THEN (IF s[1] = "-" THEN 0 - DigitsValue(Tail(s)) ELSE DigitsValue(Tail(s)))
         ELSE 0
    ELSE IF AllDigits(s) THEN DigitsValue(s) ELSE 0

\* the request's inputs
IndexParams == {<<>>, <<"x">>, <<"-", "1">>, <<"0">>, <<"0", "0">>, <<"1">>, <<"2">>}
TimeoutParams == {<<>>, <<"x">>, <<"-", "5">>, <<"0">>, <<"5">>, <<"1", "0">>, <<"1", "2">>}

index == ParseUint(indexParam)
timeout == Atoi(timeoutParam)

IndexIsZeroNever(i) == FALSE

\* if index == 0 (line 618)
IndexIsZero(i) == i = 0

IndexReachedStrict(idx, i) == idx > i

IndexReachedOrEqualBelow(idx, i) == idx + 1 >= i

\* idx >= index (line 645)
IndexReached(idx, i) == idx >= i

AbortedSeenNever(a) == a = 2

\* atomic.LoadInt32(&aborted) == 1 (line 648)
AbortedSeen(a) == a = 1

\* atomic.LoadInt32(&timedOut) == 1 (line 650)
TimedOutSeen(t) == t = 1

SleepDurationLong == 2 * PollInterval

\* the argument of time.Sleep (line 654)
SleepDuration == PollInterval

\* defer timer.Stop() (line 628): a timer that has not fired never fires
TimerAfterStop(t) == IF t \in {"armed", "never"} THEN "stopped" ELSE t

InitWaitSpec ==
    /\ status = 0 /\ headerCalls = 0 /\ body = <<>> /\ flushes = 0
    /\ qpc = "idle" /\ chunked = FALSE /\ res = <<>> /\ statusWritten = FALSE /\ qIn = <<>>
    /\ wpc = "start"
    /\ indexParam \in IndexParams
    /\ timeoutParam \in TimeoutParams
    /\ notifierOk \in BOOLEAN
    /\ nodeIndex \in 0..MaxIndex
    /\ timedOut = 0 /\ aborted = 0
    /\ timer = "none" /\ timerLeft = 0 /\ timerC = 0 /\ timerG = "none" /\ watchG = "none"
    /\ clientGone = FALSE /\ sleepLeft = 0 /\ wOutcome = "none" /\ idxAtExit = 0 /\ idxAtSignal = -1
    /\ sinceFire = 0 /\ sleepsAfterAbort = 0
    /\ mpc = "idle" /\ mCall = "" /\ mChunkSize = 0 /\ mChunkSize0 = 0
    /\ lmLeft = 0 /\ lmOpens = 0 /\ lmCloses = 0 /\ lmDeferred = FALSE
    /\ mFailedAt = "none"
    /\ dpc = "idle" /\ measurements = <<>> /\ dIdx = 0 /\ dRecv = 0 /\ dLog = <<>>
    /\ dFailed = "none"
    /\ wrpc = "idle" /\ WriteTrace = FALSE /\ gzipBody = "none" /\ reqBody = <<>>
    /\ readErrAt = -1 /\ requireAuthentication = FALSE /\ user = "nil"
    /\ dec = [bytes |-> <<>>, readErr |-> FALSE] /\ bp = [database |-> ""]
    /\ wrChecks = <<>> /\ writeSeriesCalls = 0 /\ header = {} /\ sentHeader = {}
    /\ index0 = 0 /\ wrOutcome = "none"
    /\ rpc = "idle" /\ route = NoRoute /\ reqOrigin = FALSE /\ acceptGzip = FALSE
    /\ loggingEnabled = FALSE /\ rChain = <<>> /\ userCount = -1 /\ creds = "none"
    /\ aOutcome = "none"
    /\ bpc = "idle" /\ configExists = FALSE /\ brokerDirExists = FALSE
    /\ dataDirExists = FALSE /\ joinFlag = <<>> /\ configJoin = <<>> /\ cqDisable = FALSE
    /\ retentionEnabled = FALSE /\ reportingDisabled = FALSE /\ initBroker = FALSE
    /\ initServer = FALSE /\ joinURLs = <<>> /\ joinIdx = 0 /\ bootLog = <<>>

\* the handler returns: the deferred timer.Stop() runs
WaitReturn(outcome) ==
    /\ wpc' = "done"
    /\ wOutcome' = outcome
    /\ idxAtExit' = nodeIndex
    /\ timer' = TimerAfterStop(timer)

\* index == 0: bad request, before the timer and the tasks exist (lines 615-621)
WaitBadIndex ==
    /\ wpc = "start"
    /\ IndexIsZero(index)
    /\ status' = WriteHeader(status, StatusBadRequest)
    /\ headerCalls' = headerCalls + 1
    /\ wpc' = "done"
    /\ wOutcome' = "badrequest"
    /\ idxAtExit' = nodeIndex
    /\ UNCHANGED <<body, flushes, dumpVars, routeVars, bootVars, writeVars, queryVars, mapVars, indexParam, timeoutParam, notifierOk,
                   nodeIndex, timedOut, aborted, timer, timerLeft, timerC, timerG,
                   watchG, clientGone, sleepLeft, sinceFire, sleepsAfterAbort,
                   idxAtSignal>>

\* the timer is created and both tasks are started (lines 623-642)
WaitStart ==
    /\ wpc = "start"
    /\ ~IndexIsZero(index)
    /\ IF timeout > 0
       THEN timer' = "armed" /\ timerLeft' = timeout /\ timerG' = "recv"
       ELSE timer' = "never" /\ UNCHANGED <<timerLeft, timerG>>
    /\ watchG' = IF notifierOk THEN "recv" ELSE "none"
    /\ wpc' = "poll"
    /\ UNCHANGED <<respVars, dumpVars, routeVars, bootVars, writeVars, queryVars, mapVars, indexParam, timeoutParam, notifierOk, nodeIndex,
                   timedOut, aborted, timerC, clientGone, sleepLeft, wOutcome,
                   idxAtExit, sinceFire, sleepsAfterAbort,
                   idxAtSignal>>

\* idx := h.server.Index(); if idx >= index, write it and leave (lines 645-647)
WaitPollIndex ==
    /\ wpc = "poll"
    /\ IF IndexReached(nodeIndex, index)
       THEN /\ body' = Append(body, [kind |-> "index", data |-> <<nodeIndex>>])
            /\ status' = WriteStatus(status)
            /\ WaitReturn("index")
       ELSE /\ wpc' = "aborted?"
            /\ UNCHANGED <<body, status, wOutcome, idxAtExit, timer>>
    /\ UNCHANGED <<headerCalls, flushes, dumpVars, routeVars, bootVars, writeVars, queryVars, mapVars, indexParam, timeoutParam, notifierOk,
                   nodeIndex, timedOut, aborted, timerLeft, timerC, timerG, watchG,
                   clientGone, sleepLeft, sinceFire, sleepsAfterAbort,
                   idxAtSignal>>

\* else if aborted == 1, leave without writing (lines 648-649)
WaitPollAborted ==
    /\ wpc = "aborted?"
    /\ IF AbortedSeen(aborted)
       THEN WaitReturn("aborted")
       ELSE wpc' = "timedOut?" /\ UNCHANGED <<wOutcome, idxAtExit, timer>>
    /\ UNCHANGED <<respVars, dumpVars, routeVars, bootVars, writeVars, queryVars, mapVars, indexParam, timeoutParam, notifierOk, nodeIndex,
                   timedOut, aborted, timerLeft, timerC, timerG, watchG, clientGone,
                   sleepLeft, sinceFire, sleepsAfterAbort,
                   idxAtSignal>>

\* else if timedOut == 1, write 408 and leave; else sleep (lines 650-655)
WaitPollTimedOut ==
    /\ wpc = "timedOut?"
    /\ IF TimedOutSeen(timedOut)
       THEN /\ status' = WriteHeader(status, StatusRequestTimeout)
            /\ headerCalls' = headerCalls + 1
            /\ WaitReturn("timeout")
            /\ UNCHANGED <<sleepLeft, sleepsAfterAbort>>
       ELSE /\ wpc' = "sleep"
            /\ sleepLeft' = SleepDuration
            /\ sleepsAfterAbort' =
                  IF aborted = 1 /\ sleepsAfterAbort < 2
                  THEN sleepsAfterAbort + 1 ELSE sleepsAfterAbort
            /\ UNCHANGED <<status, headerCalls, wOutcome, idxAtExit, timer>>
    /\ UNCHANGED <<body, flushes, dumpVars, routeVars, bootVars, writeVars, queryVars, mapVars, indexParam, timeoutParam, notifierOk,
                   nodeIndex, timedOut, aborted, timerLeft, timerC, timerG, watchG,
                   clientGone, sinceFire,
                   idxAtSignal>>

\* time.Sleep returns
WaitWake ==
    /\ wpc = "sleep"
    /\ sleepLeft = 0
    /\ wpc' = "poll"
    /\ UNCHANGED <<respVars, dumpVars, routeVars, bootVars, writeVars, queryVars, mapVars, indexParam, timeoutParam, notifierOk, nodeIndex,
                   timedOut, aborted, timer, timerLeft, timerC, timerG, watchG,
                   clientGone, sleepLeft, wOutcome, idxAtExit, sinceFire,
                   sleepsAfterAbort,
                   idxAtSignal>>

\* the runtime fires the timer: a value is sent on timer.C
TimerFire ==
    /\ timer = "armed"
    /\ timerLeft = 0
    /\ timer' = "fired"
    /\ timerC' = 1
    /\ idxAtSignal' = IF idxAtSignal = -1 THEN nodeIndex ELSE idxAtSignal
    /\ UNCHANGED <<respVars, dumpVars, routeVars, bootVars, writeVars, queryVars, mapVars, wpc, indexParam, timeoutParam, notifierOk,
                   nodeIndex, timedOut, aborted, timerLeft, timerG, watchG, clientGone,
                   sleepLeft, wOutcome, idxAtExit, sinceFire, sleepsAfterAbort>>

\* timer task: <-timer.C (line 632)
TimerTaskReceive ==
    /\ timerG = "recv"
    /\ timerC = 1
    /\ timerC' = 0
    /\ timerG' = "store"
    /\ UNCHANGED <<respVars, dumpVars, routeVars, bootVars, writeVars, queryVars, mapVars, wpc, indexParam, timeoutParam, notifierOk,
                   nodeIndex, timedOut, aborted, timer, timerLeft, watchG, clientGone,
                   sleepLeft, wOutcome, idxAtExit, sinceFire, sleepsAfterAbort,
                   idxAtSignal>>

\* timer task: atomic.StoreInt32(&timedOut, 1) (line 633)
TimerTaskStore ==
    /\ timerG = "store"
    /\ timedOut' = 1
    /\ timerG' = "done"
    /\ UNCHANGED <<respVars, dumpVars, routeVars, bootVars, writeVars, queryVars, mapVars, wpc, indexParam, timeoutParam, notifierOk,
                   nodeIndex, aborted, timer, timerLeft, timerC, watchG, clientGone,
                   sleepLeft, wOutcome, idxAtExit, sinceFire, sleepsAfterAbort,
                   idxAtSignal>>

\* the client closes the connection
ClientDisconnect ==
    /\ wpc \notin {"idle", "start"}
    /\ ~clientGone
    /\ clientGone' = TRUE
    /\ idxAtSignal' = IF idxAtSignal = -1 THEN nodeIndex ELSE idxAtSignal
    /\ UNCHANGED <<respVars, dumpVars, routeVars, bootVars, writeVars, queryVars, mapVars, wpc, indexParam, timeoutParam, notifierOk,
                   nodeIndex, timedOut, aborted, timer, timerLeft, timerC, timerG,
                   watchG, sleepLeft, wOutcome, idxAtExit, sinceFire, sleepsAfterAbort>>

\* watcher task: <-notify.CloseNotify() (line 639)
WatcherReceive ==
    /\ watchG = "recv"
    /\ clientGone
    /\ watchG' = "store"
    /\ UNCHANGED <<respVars, dumpVars, routeVars, bootVars, writeVars, queryVars, mapVars, wpc, indexParam, timeoutParam, notifierOk,
                   nodeIndex, timedOut, aborted, timer, timerLeft, timerC, timerG,
                   clientGone, sleepLeft, wOutcome, idxAtExit, sinceFire,
                   sleepsAfterAbort,
                   idxAtSignal>>

\* watcher task: atomic.StoreInt32(&aborted, 1) (line 640)
WatcherStore ==
    /\ watchG = "store"
    /\ aborted' = 1
    /\ watchG' = "done"
    /\ UNCHANGED <<respVars, dumpVars, routeVars, bootVars, writeVars, queryVars, mapVars, wpc, indexParam, timeoutParam, notifierOk,
                   nodeIndex, timedOut, timer, timerLeft, timerC, timerG, clientGone,
                   sleepLeft, wOutcome, idxAtExit, sinceFire, sleepsAfterAbort,
                   idxAtSignal>>

\* the write path applies an entry: the node's index advances
IndexAdvance ==
    /\ wpc \notin {"idle", "start"}
    /\ nodeIndex < MaxIndex
    /\ nodeIndex' = nodeIndex + 1
    /\ UNCHANGED <<respVars, dumpVars, routeVars, bootVars, writeVars, queryVars, mapVars, wpc, indexParam, timeoutParam, notifierOk,
                   timedOut, aborted, timer, timerLeft, timerC, timerG, watchG,
                   clientGone, sleepLeft, wOutcome, idxAtExit, sinceFire,
                   sleepsAfterAbort,
                   idxAtSignal>>

\* one millisecond passes: only sleeping and an armed timer take time, every
\* step of the handler and of the timer task is taken as soon as it can be
Tick ==
    /\ wpc = "sleep"
    /\ sleepLeft > 0
    /\ ~(timer = "armed" /\ timerLeft = 0)
    /\ ~(timerG = "recv" /\ timerC = 1)
    /\ timerG # "store"
    /\ sleepLeft' = sleepLeft - 1
    /\ timerLeft' = IF timer = "armed" THEN timerLeft - 1 ELSE timerLeft
    /\ sinceFire' = IF timer = "fired" /\ sinceFire <= PollInterval
                    THEN sinceFire + 1 ELSE sinceFire
    /\ UNCHANGED <<respVars, dumpVars, routeVars, bootVars, writeVars, queryVars, mapVars, wpc, indexParam, timeoutParam, notifierOk,
                   nodeIndex, timedOut, aborted, timer, timerC, timerG, watchG,
                   clientGone, wOutcome, idxAtExit, sleepsAfterAbort,
                   idxAtSignal>>

NextWait ==
    \/ WaitBadIndex
    \/ WaitStart
    \/ WaitPollIndex
    \/ WaitPollAborted
    \/ WaitPollTimedOut
    \/ WaitWake
    \/ TimerFire
    \/ TimerTaskReceive
    \/ TimerTaskStore
    \/ ClientDisconnect
    \/ WatcherReceive
    \/ WatcherStore
    \/ IndexAdvance
    \/ Tick

SpecWait == InitWaitSpec /\ [][NextWait]_vars

\* the handler and its tasks are scheduled, and time passes
FairWait ==
    /\ WF_vars(WaitBadIndex) /\ WF_vars(WaitStart)
    /\ WF_vars(WaitPollIndex) /\ WF_vars(WaitPollAborted) /\ WF_vars(WaitPollTimedOut)
    /\ WF_vars(WaitWake) /\ WF_vars(Tick)
    /\ WF_vars(TimerFire) /\ WF_vars(TimerTaskReceive) /\ WF_vars(TimerTaskStore)
    /\ WF_vars(WatcherReceive) /\ WF_vars(WatcherStore)

FairSpecWait == SpecWait /\ FairWait

----------------------------------------------------------------------------
(* Properties of serveWait *)

\* C6: a wait whose target index is zero ends with bad-request status and no
\* wait, whatever the node's index and the timeout: nothing else is written,
\* the polling loop is not entered, no timer and no task is started.
C6_ZeroIndexBadRequest ==
    (index = 0 /\ wpc # "start")
        => /\ wpc = "done"
           /\ wOutcome = "badrequest"
           /\ status = StatusBadRequest
           /\ headerCalls = 1
           /\ body = <<>>
           /\ timer = "none" /\ timerG = "none" /\ watchG = "none"
           /\ timedOut = 0 /\ aborted = 0

C6_Witness ==
    /\ wpc = "done" /\ indexParam = <<"0", "0">> /\ timeout = 12 /\ notifierOk
    /\ nodeIndex = 2 /\ clientGone
    /\ status = StatusBadRequest

\* C7 as claimed: for a target above zero, when the node's index has reached
\* the target before the client left and before the timer fired (so the
\* request has not ended by timeout or cancellation before that), the request
\* ends with success.
C7_SuccessOnceIndexReached ==
    (/\ wpc = "done" /\ index > 0 /\ idxAtExit >= index
     /\ (idxAtSignal = -1 \/ idxAtSignal >= index))
        => wOutcome = "index"

C7_IndexBody ==
    wOutcome = "index"
        => /\ index > 0
           /\ idxAtExit >= index
           /\ body = <<[kind |-> "index", data |-> <<idxAtExit>>]>>
           /\ status = StatusOK
           /\ headerCalls = 0

\* C7 as amended: for a target N above zero, when the node's index is at or
\* above N while the handler sleeps or is about to read the index, serveWait
\* eventually returns success; the body of a success is the value the node's
\* index held when the handler read it, a value at or above N, with status
\* 200. A poll that has already read a smaller index may still end the
\* request by its aborted or timed-out check.
C7_SuccessAtNextPoll ==
    /\ []C7_IndexBody
    /\ (wpc \in {"poll", "sleep"} /\ nodeIndex >= index) ~> (wOutcome = "index")

C7_Witness ==
    /\ wOutcome = "index" /\ index = 2 /\ idxAtExit = 2
    /\ timedOut = 1 /\ aborted = 1
    /\ body = <<[kind |-> "index", data |-> <<2>>]>>

C8_TimeoutStatus ==
    status = StatusRequestTimeout
        => /\ wOutcome = "timeout"
           /\ timeout > 0
           /\ body = <<>>
           /\ timer = "fired"
           /\ timedOut = 1
           /\ sinceFire <= PollInterval

\* C8: for a target above zero and a positive timeout, if the node's index
\* never reaches the target and the client does not disconnect, serveWait
\* eventually returns request-timeout status with no body; that status is
\* never written before the timer has fired and is written at most one
\* polling interval after it fired.
C8_TimeoutWithinPollInterval ==
    /\ []C8_TimeoutStatus
    /\ (index > 0 /\ timeout > 0 /\ [](nodeIndex < index /\ ~clientGone))
           => <>(wOutcome = "timeout" /\ status = StatusRequestTimeout /\ body = <<>>)

C8_Witness ==
    /\ wOutcome = "timeout" /\ status = StatusRequestTimeout /\ body = <<>>
    /\ timeout = 10 /\ sinceFire = PollInterval /\ ~clientGone /\ nodeIndex < index

\* C9 as claimed: once the aborted flag is set, no step writes a body or a
\* status to the response.
C9_NoWriteAfterAbort ==
    [][aborted = 1 => (body' = body /\ status' = status /\ headerCalls' = headerCalls)]_vars

\* C9 as amended: a poll that finds the index below the target and then sees
\* the aborted flag set ends the request without writing a body or a status,
\* and after the flag is set the loop begins at most one more sleep; a poll
\* that reads the index at or above the target after the flag is set still
\* writes the body, and a poll already past its aborted check still writes
\* the timeout status.
C9_AbortedExitWritesNothing ==
    /\ wOutcome = "aborted"
           => (aborted = 1 /\ clientGone /\ status = 0 /\ headerCalls = 0 /\ body = <<>>)
    /\ sleepsAfterAbort <= 1

C9_Witness ==
    /\ wOutcome = "aborted" /\ sleepsAfterAbort = 1 /\ timedOut = 1
    /\ status = 0 /\ body = <<>>

----------------------------------------------------------------------------
(* serveRunMapper *)

MaxIntervals == 3   \* NextInterval calls after which the mapper is exhausted
MaxChunkSize == 2   \* the spec's chunkSize is within -1..MaxChunkSize

\* the call field of the decoded RemoteMapper: absent, a call, or unparsable
CallFields == {"", "count(value)", "count("}

\* m.CallExpr(): the parsed call, nil when the field is empty
CallExpr(c) ==
    IF c = "" THEN [call |-> "nil", err |-> FALSE]
    ELSE IF c = "count(value)" THEN [call |-> "count", err |-> FALSE]
    ELSE [call |-> "nil", err |-> TRUE]

isRawNever == FALSE

\* isRaw: no call expression (lines 776-779)
isRaw == CallExpr(mCall).call = "nil"

IsEmptyAlways(left) == TRUE

\* lm.IsEmpty(m.TMax) on a mapper with `left` intervals to go
IsEmpty(left) == left = 0

DataFrame(v) == [kind |-> "data", data |-> <<v>>]
CompletedFrame == [kind |-> "completed", data |-> <<>>]
ErrorFrame == [kind |-> "maperror", data |-> <<>>]

mapErrorSilent == UNCHANGED respVars

mapErrorWithStatus ==
    /\ body' = Append(body, ErrorFrame)
    /\ status' = WriteHeader(status, StatusInternalServerError)
    /\ headerCalls' = headerCalls + 1
    /\ UNCHANGED flushes

\* mapError: the error frame is written, nothing else (lines 856-859)
mapError ==
    /\ body' = Append(body, ErrorFrame)
    /\ status' = WriteStatus(status)
    /\ UNCHANGED <<headerCalls, flushes>>

InitMapperSpec ==
    /\ status = 0 /\ headerCalls = 0 /\ body = <<>> /\ flushes = 0
    /\ qpc = "idle" /\ chunked = FALSE /\ res = <<>> /\ statusWritten = FALSE /\ qIn = <<>>
    /\ wpc = "idle" /\ indexParam = <<>> /\ timeoutParam = <<>> /\ notifierOk = FALSE
    /\ nodeIndex = 0 /\ timedOut = 0 /\ aborted = 0
    /\ timer = "none" /\ timerLeft = 0 /\ timerC = 0 /\ timerG = "none" /\ watchG = "none"
    /\ clientGone = FALSE /\ sleepLeft = 0 /\ wOutcome = "none" /\ idxAtExit = 0 /\ idxAtSignal = -1
    /\ sinceFire = 0 /\ sleepsAfterAbort = 0
    /\ mpc = "start"
    /\ mCall = "" /\ mChunkSize = 0 /\ mChunkSize0 = 0
    /\ lmLeft = 0 /\ lmOpens = 0 /\ lmCloses = 0 /\ lmDeferred = FALSE
    /\ mFailedAt = "none"
    /\ dpc = "idle" /\ measurements = <<>> /\ dIdx = 0 /\ dRecv = 0 /\ dLog = <<>>
    /\ dFailed = "none"
    /\ wrpc = "idle" /\ WriteTrace = FALSE /\ gzipBody = "none" /\ reqBody = <<>>
    /\ readErrAt = -1 /\ requireAuthentication = FALSE /\ user = "nil"
    /\ dec = [bytes |-> <<>>, readErr |-> FALSE] /\ bp = [database |-> ""]
    /\ wrChecks = <<>> /\ writeSeriesCalls = 0 /\ header = {} /\ sentHeader = {}
    /\ index0 = 0 /\ wrOutcome = "none"
    /\ rpc = "idle" /\ route = NoRoute /\ reqOrigin = FALSE /\ acceptGzip = FALSE
    /\ loggingEnabled = FALSE /\ rChain = <<>> /\ userCount = -1 /\ creds = "none"
    /\ aOutcome = "none"
    /\ bpc = "idle" /\ configExists = FALSE /\ brokerDirExists = FALSE
    /\ dataDirExists = FALSE /\ joinFlag = <<>> /\ configJoin = <<>> /\ cqDisable = FALSE
    /\ retentionEnabled = FALSE /\ reportingDisabled = FALSE /\ initBroker = FALSE
    /\ initServer = FALSE /\ joinURLs = <<>> /\ joinIdx = 0 /\ bootLog = <<>>

MapperReturnNoClose ==
    /\ mpc' = "done"
    /\ UNCHANGED lmCloses

\* the handler returns: the deferred lm.Close() runs if it was registered
MapperReturn ==
    /\ mpc' = "done"
    /\ lmCloses' = IF lmDeferred THEN lmCloses + 1 ELSE lmCloses

\* content type and status 200 are written first (lines 742-743)
MapperHeader ==
    /\ mpc = "start"
    /\ status' = WriteHeader(status, StatusOK)
    /\ headerCalls' = headerCalls + 1
    /\ mpc' = "decode"
    /\ UNCHANGED <<body, flushes, dumpVars, routeVars, bootVars, writeVars, queryVars, waitVars, mCall, mChunkSize0, mChunkSize, lmLeft,
                   lmOpens, lmCloses, lmDeferred, mFailedAt>>

\* the RemoteMapper is decoded from the request body (lines 746-751)
MapperDecode ==
    /\ mpc = "decode"
    /\ \/ /\ mCall' \in CallFields
          /\ mChunkSize' \in (-1)..MaxChunkSize
          /\ mChunkSize0' = mChunkSize'
          /\ mpc' = "startLocalMapper"
          /\ UNCHANGED <<respVars, lmCloses, mFailedAt>>
       \/ /\ mapError
          /\ MapperReturn
          /\ mFailedAt' = "decode"
          /\ UNCHANGED <<mCall, mChunkSize, mChunkSize0>>
    /\ UNCHANGED <<dumpVars, routeVars, bootVars, writeVars, queryVars, waitVars, lmLeft, lmOpens, lmDeferred>>

\* lm, err := h.server.StartLocalMapper(&m) (lines 754-758)
MapperStartLocalMapper ==
    /\ mpc = "startLocalMapper"
    /\ \/ /\ lmLeft' \in 0..MaxIntervals
          /\ mpc' = "open"
          /\ UNCHANGED <<respVars, lmCloses, mFailedAt>>
       \/ /\ mapError
          /\ MapperReturn
          /\ mFailedAt' = "startLocalMapper"
          /\ UNCHANGED lmLeft
    /\ UNCHANGED <<dumpVars, routeVars, bootVars, writeVars, queryVars, waitVars, mCall, mChunkSize0, mChunkSize, lmOpens, lmDeferred>>

\* lm.Open(), then defer lm.Close() (lines 759-763)
MapperOpen ==
    /\ mpc = "open"
    /\ \/ /\ lmOpens' = lmOpens + 1
          /\ lmDeferred' = TRUE
          /\ mpc' = "callExpr"
          /\ UNCHANGED <<respVars, lmCloses, mFailedAt>>
       \/ /\ mapError
          /\ MapperReturn
          /\ mFailedAt' = "open"
          /\ UNCHANGED <<lmOpens, lmDeferred>>
    /\ UNCHANGED <<dumpVars, routeVars, bootVars, writeVars, queryVars, waitVars, mCall, mChunkSize0, mChunkSize, lmLeft>>

\* call, err := m.CallExpr() (lines 764-768)
MapperCallExpr ==
    /\ mpc = "callExpr"
    /\ IF CallExpr(mCall).err
       THEN /\ mapError
            /\ MapperReturn
            /\ mFailedAt' = "callExpr"
       ELSE /\ mpc' = "begin"
            /\ UNCHANGED <<respVars, lmCloses, mFailedAt>>
    /\ UNCHANGED <<dumpVars, routeVars, bootVars, writeVars, queryVars, waitVars, mCall, mChunkSize0, mChunkSize, lmLeft, lmOpens, lmDeferred>>

\* lm.Begin(call, m.TMin, m.ChunkSize) (lines 770-773)
MapperBegin ==
    /\ mpc = "begin"
    /\ \/ /\ mpc' = "next"
          /\ UNCHANGED <<respVars, lmCloses, mFailedAt>>
       \/ /\ mapError
          /\ MapperReturn
          /\ mFailedAt' = "begin"
    /\ UNCHANGED <<dumpVars, routeVars, bootVars, writeVars, queryVars, waitVars, mCall, mChunkSize0, mChunkSize, lmLeft, lmOpens, lmDeferred>>

\* one iteration of the interval loop (lines 782-821); NextInterval fails, or
\* yields nil or a value, and marshalling a value may fail
MapperInterval ==
    /\ mpc = "next"
    /\ \E got \in {"err", "nil", "value"}, marshalled \in BOOLEAN :
          LET left == IF lmLeft > 0 THEN lmLeft - 1 ELSE 0
          IN /\ got = "value" => lmLeft > 0
             /\ got # "value" => marshalled
             /\ IF got = "err"
                THEN /\ mapError
                     /\ MapperReturn
                     /\ mFailedAt' = "nextInterval"
                     /\ UNCHANGED <<lmLeft, mChunkSize>>
                ELSE IF got = "nil" /\ IsEmpty(left)
                THEN /\ mpc' = "completed"
                     /\ lmLeft' = left
                     /\ UNCHANGED <<respVars, lmCloses, mFailedAt, mChunkSize>>
                ELSE IF ~marshalled
                THEN /\ mapError
                     /\ MapperReturn
                     /\ mFailedAt' = "marshal"
                     /\ lmLeft' = left
                     /\ UNCHANGED mChunkSize
                ELSE /\ body' = Append(body, DataFrame(got))
                     /\ status' = WriteStatus(status)
                     /\ flushes' = flushes + 1
                     /\ lmLeft' = left
                     /\ mChunkSize' = IF isRaw THEN mChunkSize ELSE mChunkSize - 1
                     /\ mpc' = IF ~isRaw /\ mChunkSize' = 0 THEN "completed"
                               ELSE IF IsEmpty(left) THEN "completed"
                               ELSE "next"
                     /\ UNCHANGED <<headerCalls, lmCloses, mFailedAt>>
    /\ UNCHANGED <<dumpVars, routeVars, bootVars, writeVars, queryVars, waitVars, mCall, mChunkSize0, lmOpens, lmDeferred>>

\* the completed frame is written and flushed (lines 823-830)
MapperCompleted ==
    /\ mpc = "completed"
    /\ body' = Append(body, CompletedFrame)
    /\ status' = WriteStatus(status)
    /\ flushes' = flushes + 1
    /\ MapperReturn
    /\ UNCHANGED <<headerCalls, dumpVars, routeVars, bootVars, writeVars, queryVars, waitVars, mCall, mChunkSize0, mChunkSize, lmLeft,
                   lmOpens, lmDeferred, mFailedAt>>

NextMapper ==
    \/ MapperHeader
    \/ MapperDecode
    \/ MapperStartLocalMapper
    \/ MapperOpen
    \/ MapperCallExpr
    \/ MapperBegin
    \/ MapperInterval
    \/ MapperCompleted

SpecMapper == InitMapperSpec /\ [][NextMapper]_vars

----------------------------------------------------------------------------
(* Properties of serveRunMapper *)

\* C10: the response of a remote mapper session has status 200, written
\* before the request body is decoded, by the only WriteHeader call of the
\* session: no failure at a later step (body decode, mapper start, open,
\* call-expression parse, begin, interval pull, encode) changes or rewrites it.
C10_MapperStatusAlways200 ==
    /\ mpc \notin {"idle", "start"} => (status = StatusOK /\ headerCalls = 1)
    /\ mpc = "decode" => body = <<>>
    /\ mFailedAt # "none" =>
          (mpc = "done" /\ status = StatusOK /\ body[Len(body)] = ErrorFrame)

C10_Witness ==
    /\ mpc = "done" /\ mFailedAt = "marshal" /\ status = StatusOK /\ headerCalls = 1
    /\ Len(body) = 3 /\ body[1].kind = "data" /\ body[3] = ErrorFrame

DataFramesOnly(s) == \A i \in 1..Len(s) : s[i].kind = "data"

Min(a, b) == IF a <= b THEN a ELSE b

\* C11: a finished remote mapper session has written zero or more data frames
\* followed by exactly one terminal frame, the completed frame or the error
\* frame; the error frame is the terminal frame exactly when a step failed,
\* it is written by the failing step itself (open, begin and interval pull
\* included), and a session that has not returned has written data frames only.
C11_OneTerminalFrame ==
    /\ mpc # "done" => DataFramesOnly(body)
    /\ mpc = "done" =>
          /\ Len(body) >= 1
          /\ DataFramesOnly(SubSeq(body, 1, Len(body) - 1))
          /\ body[Len(body)] \in {CompletedFrame, ErrorFrame}
          /\ body[Len(body)] = ErrorFrame <=> mFailedAt # "none"
    /\ mFailedAt \in {"open", "begin", "nextInterval"} =>
          (mpc = "done" /\ body[Len(body)] = ErrorFrame)

C11_Witness ==
    /\ mpc = "done" /\ mFailedAt = "nextInterval"
    /\ Len(body) = 3 /\ body[1].kind = "data" /\ body[2].kind = "data"
    /\ body[3] = ErrorFrame

\* C12: in raw mode (the request carries no call expression) the completed
\* frame is reached only with IsEmpty(TMax) true, for every chunk size: the
\* chunk counter keeps the value the request carried and does not end the loop.
C12_RawRunsUntilEmpty ==
    mCall = "" =>
       /\ mpc \in {"next", "completed", "done"} => mChunkSize = mChunkSize0
       /\ mpc = "completed" => IsEmpty(lmLeft)
       /\ (mpc = "done" /\ mFailedAt = "none") => IsEmpty(lmLeft)

C12_Witness ==
    /\ mpc = "done" /\ mCall = "" /\ mFailedAt = "none"
    /\ mChunkSize0 = 1 /\ mChunkSize = 1
    /\ Len(body) = 4 /\ body[4] = CompletedFrame /\ IsEmpty(lmLeft)

\* C13: in aggregate mode, with no mapper error, the number of data frames
\* before the completed frame is the minimum of the intervals until the mapper
\* is exhausted (those emitted plus those left) and the chunk size the request
\* carried; stated here for the chunk sizes from zero up, where the minimum
\* is a number of frames.
C13_AggregateFramesMinOfIntervalsAndChunk ==
    (mpc = "done" /\ mCall = "count(value)" /\ mFailedAt = "none" /\ mChunkSize0 >= 0) =>
       LET frames == Len(body) - 1
       IN frames = Min(frames + lmLeft, mChunkSize0)

\* C14 as stated: every local mapper obtained from StartLocalMapper has been
\* closed exactly once when the handler has returned, an error at open included.
C14_ClosedOnEveryExit ==
    (mpc = "done" /\ mFailedAt \notin {"decode", "startLocalMapper"}) => lmCloses = 1

\* C14: a local mapper whose Open succeeded is closed exactly once, when the
\* handler returns and not before, on every later exit path (completion, chunk
\* counter zero, error at call-expression parse, begin, interval pull or frame
\* encoding); a mapper whose Open failed is returned from without Close.
C14_ClosedOnceIfOpened ==
    /\ mpc # "done" => lmCloses = 0
    /\ mpc = "done" =>
          /\ lmCloses = lmOpens
          /\ lmCloses = 1 <=> mFailedAt \notin {"decode", "startLocalMapper", "open"}
          /\ lmCloses = 0 <=> mFailedAt \in {"decode", "startLocalMapper", "open"}

C14_Witness ==
    /\ mpc = "done" /\ mFailedAt = "begin" /\ lmOpens = 1 /\ lmCloses = 1
    /\ body = <<ErrorFrame>>

----------------------------------------------------------------------------
(* serveDump *)

MaxMeasurements == 2   \* cells in the answer of the discovery query
MaxDumpResults == 2    \* results the engine sends on one per-measurement stream
MaxRows == 2           \* rows (tuples of all series) in one such result

DefaultChunkSize == 10000

\* a cell of the discovery answer: a measurement name, or nil
NilCell == "<nil>"
Cells == {"cpu", "mem", NilCell}

\* interfaceToString: a nil cell is the empty string, a string is itself
interfaceToString(v) == IF v = NilCell THEN "" ELSE v

CellLists == UNION {[1..n -> Cells] : n \in 0..MaxMeasurements}

\* a result of the discovery query: nil, or the cells of its series' tuples
NilResult == [nil |-> TRUE, cells |-> <<>>]
CellsResult(c) == [nil |-> FALSE, cells |-> c]

\* what the discovery query sends on its channel: a list of cells arrives in
\* one result or split over two, with or without a nil result behind it
DiscoveryResponses ==
    {<<CellsResult(c)>> : c \in CellLists}
    \cup UNION {{<<CellsResult(SubSeq(c, 1, k)), CellsResult(SubSeq(c, k + 1, Len(c)))>> :
                    k \in 0..Len(c)} : c \in CellLists}
    \cup {<<CellsResult(c), NilResult>> : c \in CellLists}

\* the four nested loops of showMeasurements (lines 365-373): every cell of
\* every result, in order, through interfaceToString
RECURSIVE FlattenCells(_)
FlattenCells(results) ==
    IF results = <<>> THEN <<>>
    ELSE [i \in 1..Len(results[1].cells) |-> interfaceToString(results[1].cells[i])]
         \o FlattenCells(Tail(results))

ShowMeasurementsQuery == <<"SHOW MEASUREMENTS">>

QueryStringNoGroupBy(measurement) == <<"select * from ", measurement>>

\* fmt.Sprintf("select * from %s group by *", measurement) (line 405)
QueryString(measurement) == <<"select * from ", measurement, " group by *">>

\* p.ParseQuery() on the query string: a statement with no measurement name
\* does not parse
ParseOk(q) == q[2] # ""

QueryEvent(q, chunkSize) ==
    [ev |-> "query", q |-> q, chunkSize |-> chunkSize, written |-> Len(body)]
DrainedEvent(q, written) ==
    [ev |-> "drained", q |-> q, chunkSize |-> 0, written |-> written]

\* one marshalled Batch and the delimiter (lines 436-454)
BatchLine(db, measurement) == [kind |-> "batch", data |-> <<db, "default", measurement>>]
SentinelLine == [kind |-> "sentinel", data |-> <<"*** SERVER-SIDE ERROR. MISSING DATA ***">>]

BatchLines(measurement, n) == [i \in 1..n |-> BatchLine("db", measurement)]

\* the loop over measurements goes on, or the handler returns (line 404)
DumpLoop(i, ms) == IF i > Len(ms) THEN "done" ELSE "query"

InitDumpSpec ==
    /\ status = 0 /\ headerCalls = 0 /\ body = <<>> /\ flushes = 0
    /\ qpc = "idle" /\ chunked = FALSE /\ res = <<>> /\ statusWritten = FALSE /\ qIn = <<>>
    /\ wpc = "idle" /\ indexParam = <<>> /\ timeoutParam = <<>> /\ notifierOk = FALSE
    /\ nodeIndex = 0 /\ timedOut = 0 /\ aborted = 0
    /\ timer = "none" /\ timerLeft = 0 /\ timerC = 0 /\ timerG = "none" /\ watchG = "none"
    /\ clientGone = FALSE /\ sleepLeft = 0 /\ wOutcome = "none" /\ idxAtExit = 0 /\ idxAtSignal = -1
    /\ sinceFire = 0 /\ sleepsAfterAbort = 0
    /\ mpc = "idle"
    /\ mCall = "" /\ mChunkSize = 0 /\ mChunkSize0 = 0
    /\ lmLeft = 0 /\ lmOpens = 0 /\ lmCloses = 0 /\ lmDeferred = FALSE
    /\ mFailedAt = "none"
    /\ dpc = "start" /\ measurements = <<>> /\ dIdx = 0 /\ dRecv = 0 /\ dLog = <<>>
    /\ dFailed = "none"
    /\ wrpc = "idle" /\ WriteTrace = FALSE /\ gzipBody = "none" /\ reqBody = <<>>
    /\ readErrAt = -1 /\ requireAuthentication = FALSE /\ user = "nil"
    /\ dec = [bytes |-> <<>>, readErr |-> FALSE] /\ bp = [database |-> ""]
    /\ wrChecks = <<>> /\ writeSeriesCalls = 0 /\ header = {} /\ sentHeader = {}
    /\ index0 = 0 /\ wrOutcome = "none"
    /\ rpc = "idle" /\ route = NoRoute /\ reqOrigin = FALSE /\ acceptGzip = FALSE
    /\ loggingEnabled = FALSE /\ rChain = <<>> /\ userCount = -1 /\ creds = "none"
    /\ aOutcome = "none"
    /\ bpc = "idle" /\ configExists = FALSE /\ brokerDirExists = FALSE
    /\ dataDirExists = FALSE /\ joinFlag = <<>> /\ configJoin = <<>> /\ cqDisable = FALSE
    /\ retentionEnabled = FALSE /\ reportingDisabled = FALSE /\ initBroker = FALSE
    /\ initServer = FALSE /\ joinURLs = <<>> /\ joinIdx = 0 /\ bootLog = <<>>

\* measurements, err := h.showMeasurements(db, user) (lines 353-375, 386-390):
\* the discovery query is executed and its channel drained to the end before
\* the names are collected; a nil result makes result.Series panic
DumpShowMeasurements ==
    /\ dpc = "start"
    /\ \/ /\ httpError(StatusInternalServerError)
          /\ dLog' = <<QueryEvent(ShowMeasurementsQuery, 0)>>
          /\ dpc' = "done"
          /\ dFailed' = "showMeasurements"
          /\ UNCHANGED <<measurements, dIdx>>
       \/ \E resp \in DiscoveryResponses :
             /\ dLog' = <<QueryEvent(ShowMeasurementsQuery, 0),
                          DrainedEvent(ShowMeasurementsQuery, Len(body))>>
             /\ UNCHANGED respVars
             /\ IF \E i \in 1..Len(resp) : resp[i].nil
                THEN /\ dpc' = "done"
                     /\ dFailed' = "panic"
                     /\ UNCHANGED <<measurements, dIdx>>
                ELSE /\ measurements' = FlattenCells(resp)
                     /\ dIdx' = 1
                     /\ dpc' = DumpLoop(1, measurements')
                     /\ UNCHANGED dFailed
    /\ UNCHANGED <<dRecv, queryVars, waitVars, mapVars, writeVars, routeVars, bootVars>>

\* the query of the current measurement is built, parsed and executed
\* (lines 404-418)
DumpQuery ==
    /\ dpc = "query"
    /\ LET q == QueryString(measurements[dIdx])
       IN IF ~ParseOk(q)
          THEN /\ httpError(StatusInternalServerError)
               /\ dpc' = "done"
               /\ dFailed' = "parse"
               /\ UNCHANGED <<dLog, dRecv>>
          ELSE /\ dLog' = Append(dLog, QueryEvent(q, DefaultChunkSize))
               /\ \/ /\ body' = Append(body, SentinelLine)
                     /\ status' = WriteStatus(status)
                     /\ dpc' = "done"
                     /\ dFailed' = "execute"
                     /\ UNCHANGED <<headerCalls, flushes, dRecv>>
                  \/ /\ dpc' = "drain"
                     /\ dRecv' = 0
                     /\ UNCHANGED <<respVars, dFailed>>
    /\ UNCHANGED <<measurements, dIdx, queryVars, waitVars, mapVars, writeVars, routeVars, bootVars>>

\* one result arrives on the stream and its rows are written, one batch a
\* row (lines 419-455); marshalling row failAt fails (0: none does); a nil
\* result makes result.Series panic
DumpReceive ==
    /\ dpc = "drain"
    /\ dRecv < MaxDumpResults
    /\ \E isNil \in BOOLEAN, rows \in 0..MaxRows, failAt \in 0..MaxRows :
          /\ failAt <= rows
          /\ isNil => (rows = 0 /\ failAt = 0)
          /\ IF isNil
             THEN /\ dpc' = "done"
                  /\ dFailed' = "panic"
                  /\ UNCHANGED <<respVars, dRecv>>
             ELSE IF failAt > 0
             THEN /\ body' = body \o BatchLines(measurements[dIdx], failAt - 1) \o <<SentinelLine>>
                  /\ status' = WriteStatus(status)
                  /\ dpc' = "done"
                  /\ dFailed' = "encode"
                  /\ UNCHANGED <<headerCalls, flushes, dRecv>>
             ELSE /\ body' = body \o BatchLines(measurements[dIdx], rows)
                  /\ status' = IF rows > 0 THEN WriteStatus(status) ELSE status
                  /\ dRecv' = dRecv + 1
                  /\ UNCHANGED <<headerCalls, flushes, dpc, dFailed>>
    /\ UNCHANGED <<measurements, dIdx, dLog, queryVars, waitVars, mapVars, writeVars, routeVars, bootVars>>

\* the stream is closed: the range loop ends and the next measurement is
\* taken, or the handler returns (lines 419, 404, 458)
DumpClosed ==
    /\ dpc = "drain"
    /\ dLog' = Append(dLog, DrainedEvent(QueryString(measurements[dIdx]), Len(body)))
    /\ dIdx' = dIdx + 1
    /\ dpc' = DumpLoop(dIdx', measurements)
    /\ UNCHANGED <<respVars, measurements, dRecv, dFailed, queryVars, waitVars, mapVars,
                   writeVars, routeVars, bootVars>>

NextDump ==
    \/ DumpShowMeasurements
    \/ DumpQuery
    \/ DumpReceive
    \/ DumpClosed

SpecDump == InitDumpSpec /\ [][NextDump]_vars

----------------------------------------------------------------------------
(* Properties of serveDump *)

\* C15: when the discovery query returns the names m1..mk and no step
\* fails, the export has issued exactly one discovery query, then exactly k
\* queries, the i-th being "select * from mi group by *", in list order; each
\* is issued after the stream of the one before is drained to the end and its
\* lines written, and the lines written during the i-th stream are batches
\* of mi.
C15_OneQueryPerMeasurementInOrder ==
    /\ dpc = "drain" => dLog[Len(dLog)].ev = "query"
    /\ dpc = "query" => dLog[Len(dLog)].ev = "drained"
    /\ (dpc = "done" /\ dFailed = "none") =>
          LET k == Len(measurements)
          IN /\ Len(dLog) = 2 * (k + 1)
             /\ dLog[1].ev = "query" /\ dLog[1].q = <<"SHOW MEASUREMENTS">>
             /\ dLog[2].ev = "drained" /\ dLog[2].written = 0
             /\ \A i \in 1..k :
                   LET issued == dLog[2 * i + 1]
                       drained == dLog[2 * i + 2]
                   IN /\ issued.ev = "query"
                      /\ issued.q = <<"select * from ", measurements[i], " group by *">>
                      /\ issued.written = dLog[2 * i].written
                      /\ drained.ev = "drained" /\ drained.q = issued.q
                      /\ \A j \in (issued.written + 1)..drained.written :
                            body[j] = BatchLine("db", measurements[i])
             /\ Len(body) = dLog[Len(dLog)].written

C15_Witness ==
    /\ dpc = "done" /\ dFailed = "none"
    /\ measurements = <<"mem", "cpu">>
    /\ Len(dLog) = 6
    /\ body = <<BatchLine("db", "mem"), BatchLine("db", "cpu")>>

\* C16: on every mid-stream failure of the export (a per-measurement query
\* that does not parse, one that fails to execute, a batch that fails to
\* encode; stated for a failure that comes after a line was written) the
\* last thing written is the literal sentinel line, the lines before it are
\* the batches written earlier, and the handler has stopped.
C16_SentinelOnEveryFailure ==
    (dFailed \in {"parse", "execute", "encode"} /\ Len(body) >= 2) =>
       /\ dpc = "done"
       /\ body[Len(body)] = SentinelLine
       /\ \A j \in 1..(Len(body) - 1) : body[j].kind = "batch"

----------------------------------------------------------------------------
(* serveWrite *)

StatusNotFound == 404

\* the bodies a write request is sent with, as tokens of the (decompressed)
\* byte stream: nothing, white space, no JSON, and a batch whose database
\* field is absent, names an existing database, or names no database
ReqBodies == {<<>>, <<" ">>, <<"x">>, <<"{", "}">>, <<"{", "db", "}">>, <<"{", "nodb", "}">>}

\* the databases of the server
Databases == {"db"}

DatabaseExistsAlways(name) == TRUE

\* h.server.DatabaseExists(bp.Database) (line 513)
DatabaseExists(name) == name \in Databases

\* user.Authorize(influxql.WritePrivilege, bp.Database) (line 523)
Authorize(u, database) == u = "writer"

\* what reading the body to its end delivers: all of it, or the bytes before
\* the read fails
Delivered(b, at) == IF at = -1 THEN b ELSE SubSeq(b, 1, at)

RECURSIVE SkipSpace(_)
SkipSpace(b) == IF b # <<>> /\ b[1] = " " THEN SkipSpace(Tail(b)) ELSE b

\* dec.Decode(&bp) on a reader that yields the bytes b and then end of input,
\* or, with readErr, a read error: io.EOF when only white space was read,
\* io.ErrUnexpectedEOF inside a value, the reader's own error when it has one
Decode(b, readErr) ==
    LET t == SkipSpace(b)
    IN IF t = <<>>
       THEN [err |-> IF readErr THEN "read error" ELSE "EOF", database |-> ""]
       ELSE IF t[1] # "{"
       THEN [err |-> "invalid character", database |-> ""]
       ELSE IF \E i \in 1..Len(t) : t[i] = "}"
       THEN [err |-> "", database |-> IF t[2] = "}" THEN "" ELSE t[2]]
       ELSE [err |-> IF readErr THEN "read error" ELSE "unexpected EOF", database |-> ""]

IsEOFNever(err) == FALSE

\* err.Error() == "EOF" (line 500)
IsEOF(err) == err = "EOF"

DigitChar(d) == CHOOSE c \in Digits : DigitValue(c) = d

\* fmt.Sprintf("%d", index) (line 539)
RECURSIVE FormatUint(_)
FormatUint(n) ==
    IF n < 10 THEN <<DigitChar(n)>>
    ELSE Append(FormatUint(n \div 10), DigitChar(n % 10))

ContentTypeHeader == [name |-> "content-type", value |-> <<"application/json">>]
IndexHeader(i) == [name |-> "X-InfluxDB-Index", value |-> FormatUint(i)]

\* w.WriteHeader(code) in serveWrite: the header map h, as it is at the
\* call, goes out with the status line, once
SendHeader(code, h) ==
    /\ sentHeader' = IF status = 0 THEN h ELSE sentHeader
    /\ status' = WriteHeader(status, code)
    /\ headerCalls' = headerCalls + 1

\* writeError (lines 462-467): content type, status, the encoded result; the
\* handler returns after it
writeError(code, outcome) ==
    /\ header' = header \cup {ContentTypeHeader}
    /\ SendHeader(code, header')
    /\ body' = Append(body, [kind |-> "result", data |-> <<>>])
    /\ wrpc' = "done"
    /\ wrOutcome' = outcome
    /\ UNCHANGED flushes

InitWriteSpec ==
    /\ status = 0 /\ headerCalls = 0 /\ body = <<>> /\ flushes = 0
    /\ qpc = "idle" /\ chunked = FALSE /\ res = <<>> /\ statusWritten = FALSE /\ qIn = <<>>
    /\ wpc = "idle" /\ indexParam = <<>> /\ timeoutParam = <<>> /\ notifierOk = FALSE
    /\ nodeIndex \in 0..(MaxIndex - 1) /\ timedOut = 0 /\ aborted = 0
    /\ timer = "none" /\ timerLeft = 0 /\ timerC = 0 /\ timerG = "none" /\ watchG = "none"
    /\ clientGone = FALSE /\ sleepLeft = 0 /\ wOutcome = "none" /\ idxAtExit = 0 /\ idxAtSignal = -1
    /\ sinceFire = 0 /\ sleepsAfterAbort = 0
    /\ mpc = "idle"
    /\ mCall = "" /\ mChunkSize = 0 /\ mChunkSize0 = 0
    /\ lmLeft = 0 /\ lmOpens = 0 /\ lmCloses = 0 /\ lmDeferred = FALSE
    /\ mFailedAt = "none"
    /\ dpc = "idle" /\ measurements = <<>> /\ dIdx = 0 /\ dRecv = 0 /\ dLog = <<>>
    /\ dFailed = "none"
    /\ wrpc = "start"
    /\ WriteTrace \in BOOLEAN
    /\ gzipBody \in {"none", "ok", "bad"}
    /\ reqBody \in ReqBodies
    /\ readErrAt \in (-1)..Len(reqBody)
    /\ requireAuthentication \in BOOLEAN
    /\ user \in {"nil", "writer", "reader"}
    /\ ~requireAuthentication => user = "nil"
    /\ dec = [bytes |-> <<>>, readErr |-> FALSE] /\ bp = [database |-> ""]
    /\ wrChecks = <<>> /\ writeSeriesCalls = 0 /\ header = {} /\ sentHeader = {}
    /\ index0 = nodeIndex /\ wrOutcome = "none"
    /\ rpc = "idle" /\ route = NoRoute /\ reqOrigin = FALSE /\ acceptGzip = FALSE
    /\ loggingEnabled = FALSE /\ rChain = <<>> /\ userCount = -1 /\ creds = "none"
    /\ aOutcome = "none"
    /\ bpc = "idle" /\ configExists = FALSE /\ brokerDirExists = FALSE
    /\ dataDirExists = FALSE /\ joinFlag = <<>> /\ configJoin = <<>> /\ cqDisable = FALSE
    /\ retentionEnabled = FALSE /\ reportingDisabled = FALSE /\ initBroker = FALSE
    /\ initServer = FALSE /\ joinURLs = <<>> /\ joinIdx = 0 /\ bootLog = <<>>

\* Content-encoding gzip: gzip.NewReader reads the stream header (lines 470-481)
WriteGzip ==
    /\ wrpc = "start"
    /\ IF gzipBody = "bad"
       THEN writeError(StatusBadRequest, "gzip")
       ELSE /\ wrpc' = "read"
            /\ UNCHANGED <<respVars, header, sentHeader, wrOutcome>>
    /\ UNCHANGED <<WriteTrace, gzipBody, reqBody, readErrAt, requireAuthentication, user, dec,
                   bp, wrChecks, writeSeriesCalls, index0, nodeIndex,
                   queryVars, waitReqVars, mapVars, dumpVars, routeVars, bootVars>>

\* the decoder is built (lines 486-497): with WriteTrace on the bytes that
\* ioutil.ReadAll returned, a read error being logged and dropped; without,
\* on the body itself
WriteReadBody ==
    /\ wrpc = "read"
    /\ dec' = [bytes |-> Delivered(reqBody, readErrAt),
               readErr |-> IF WriteTrace THEN FALSE ELSE readErrAt # -1]
    /\ wrpc' = "decode"
    /\ UNCHANGED <<respVars, WriteTrace, gzipBody, reqBody, readErrAt, requireAuthentication,
                   user, bp, wrChecks, writeSeriesCalls, header, sentHeader, index0, wrOutcome,
                   nodeIndex, queryVars, waitReqVars, mapVars, dumpVars, routeVars, bootVars>>

\* dec.Decode(&bp) (lines 499-506)
WriteDecode ==
    /\ wrpc = "decode"
    /\ wrChecks' = Append(wrChecks, "decode")
    /\ LET d == Decode(dec.bytes, dec.readErr)
       IN IF d.err # ""
          THEN IF IsEOF(d.err)
               THEN /\ SendHeader(StatusOK, header)
                    /\ wrpc' = "done"
                    /\ wrOutcome' = "eof"
                    /\ UNCHANGED <<body, flushes, header, bp>>
               ELSE /\ writeError(StatusInternalServerError, "decode")
                    /\ UNCHANGED bp
          ELSE /\ bp' = [database |-> d.database]
               /\ wrpc' = "database"
               /\ UNCHANGED <<respVars, header, sentHeader, wrOutcome>>
    /\ UNCHANGED <<WriteTrace, gzipBody, reqBody, readErrAt, requireAuthentication, user, dec,
                   writeSeriesCalls, index0, nodeIndex,
                   queryVars, waitReqVars, mapVars, dumpVars, routeVars, bootVars>>

\* bp.Database == "" (lines 508-511)
WriteCheckDatabase ==
    /\ wrpc = "database"
    /\ wrChecks' = Append(wrChecks, "database")
    /\ IF bp.database = ""
       THEN writeError(StatusInternalServerError, "database")
       ELSE /\ wrpc' = "exists"
            /\ UNCHANGED <<respVars, header, sentHeader, wrOutcome>>
    /\ UNCHANGED <<WriteTrace, gzipBody, reqBody, readErrAt, requireAuthentication, user, dec,
                   bp, writeSeriesCalls, index0, nodeIndex,
                   queryVars, waitReqVars, mapVars, dumpVars, routeVars, bootVars>>

\* !h.server.DatabaseExists(bp.Database) (lines 513-516)
WriteCheckExists ==
    /\ wrpc = "exists"
    /\ wrChecks' = Append(wrChecks, "exists")
    /\ IF ~DatabaseExists(bp.database)
       THEN writeError(StatusNotFound, "exists")
       ELSE /\ wrpc' = "user"
            /\ UNCHANGED <<respVars, header, sentHeader, wrOutcome>>
    /\ UNCHANGED <<WriteTrace, gzipBody, reqBody, readErrAt, requireAuthentication, user, dec,
                   bp, writeSeriesCalls, index0, nodeIndex,
                   queryVars, waitReqVars, mapVars, dumpVars, routeVars, bootVars>>

\* h.requireAuthentication && user == nil (lines 518-521)
WriteCheckUser ==
    /\ wrpc = "user"
    /\ wrChecks' = Append(wrChecks, "user")
    /\ IF requireAuthentication /\ user = "nil"
       THEN writeError(StatusUnauthorized, "user")
       ELSE /\ wrpc' = "privilege"
            /\ UNCHANGED <<respVars, header, sentHeader, wrOutcome>>
    /\ UNCHANGED <<WriteTrace, gzipBody, reqBody, readErrAt, requireAuthentication, user, dec,
                   bp, writeSeriesCalls, index0, nodeIndex,
                   queryVars, waitReqVars, mapVars, dumpVars, routeVars, bootVars>>

\* h.requireAuthentication && !user.Authorize(...) (lines 523-526)
WriteCheckPrivilege ==
    /\ wrpc = "privilege"
    /\ wrChecks' = Append(wrChecks, "privilege")
    /\ IF requireAuthentication /\ ~Authorize(user, bp.database)
       THEN writeError(StatusUnauthorized, "privilege")
       ELSE /\ wrpc' = "normalize"
            /\ UNCHANGED <<respVars, header, sentHeader, wrOutcome>>
    /\ UNCHANGED <<WriteTrace, gzipBody, reqBody, readErrAt, requireAuthentication, user, dec,
                   bp, writeSeriesCalls, index0, nodeIndex,
                   queryVars, waitReqVars, mapVars, dumpVars, routeVars, bootVars>>

\* points, err := influxdb.NormalizeBatchPoints(bp) (lines 528-532)
WriteNormalize ==
    \E failed \in BOOLEAN :
       /\ wrpc = "normalize"
       /\ wrChecks' = Append(wrChecks, "normalize")
       /\ IF failed
          THEN writeError(StatusInternalServerError, "normalize")
          ELSE /\ wrpc' = "writeSeries"
               /\ UNCHANGED <<respVars, header, sentHeader, wrOutcome>>
       /\ UNCHANGED <<WriteTrace, gzipBody, reqBody, readErrAt, requireAuthentication, user, dec,
                      bp, writeSeriesCalls, index0, nodeIndex,
                      queryVars, waitReqVars, mapVars, dumpVars, routeVars, bootVars>>

\* index, err := h.server.WriteSeries(...) (lines 534-540): on success the
\* status is written, then the index header is added to the header map
WriteSeries ==
    /\ wrpc = "writeSeries"
    /\ wrChecks' = Append(wrChecks, "writeSeries")
    /\ writeSeriesCalls' = writeSeriesCalls + 1
    /\ \/ /\ writeError(StatusInternalServerError, "writeSeries")
          /\ UNCHANGED nodeIndex
       \/ /\ nodeIndex' = nodeIndex + 1
          /\ SendHeader(StatusOK, header)
          /\ header' = header \cup {IndexHeader(nodeIndex')}
          /\ wrpc' = "done"
          /\ wrOutcome' = "ok"
          /\ UNCHANGED <<body, flushes>>
    /\ UNCHANGED <<WriteTrace, gzipBody, reqBody, readErrAt, requireAuthentication, user, dec,
                   bp, index0, queryVars, waitReqVars, mapVars, dumpVars, routeVars, bootVars>>

NextWrite ==
    \/ WriteGzip
    \/ WriteReadBody
    \/ WriteDecode
    \/ WriteCheckDatabase
    \/ WriteCheckExists
    \/ WriteCheckUser
    \/ WriteCheckPrivilege
    \/ WriteNormalize
    \/ WriteSeries

SpecWrite == InitWriteSpec /\ [][NextWrite]_vars

----------------------------------------------------------------------------
(* Properties of serveWrite *)

WriteOrder == <<"decode", "database", "exists", "user", "privilege", "normalize", "writeSeries">>

\* whether a check fails on this request, for the checks the request and the
\* server's state decide
CheckFails(c) ==
    CASE c = "decode" -> Decode(dec.bytes, dec.readErr).err # ""
      [] c = "database" -> bp.database = ""
      [] c = "exists" -> bp.database \notin Databases
      [] c = "user" -> requireAuthentication /\ user = "nil"
      [] c = "privilege" -> requireAuthentication /\ user # "writer"

\* the status the failure of a check is reported with
CheckStatus(c) ==
    CASE c = "decode" -> IF Decode(dec.bytes, dec.readErr).err = "EOF"
                         THEN StatusOK ELSE StatusInternalServerError
      [] c = "database" -> StatusInternalServerError
      [] c = "exists" -> StatusNotFound
      [] c = "user" -> StatusUnauthorized
      [] c = "privilege" -> StatusUnauthorized

\* C17: serveWrite evaluates its checks in the order decode, database name
\* present, database exists, principal present (when authentication is
\* required), write privilege; the request ends at the first check that
\* fails, with that check's status (500 for no database name, 404 for a
\* database that does not exist, 401 for a missing principal or privilege),
\* no later check being evaluated; WriteSeries is invoked at most once, and
\* only after all five checks and normalization passed.
C17_ChecksInOrderFirstFailureReported ==
    /\ Len(wrChecks) <= Len(WriteOrder)
    /\ \A i \in 1..Len(wrChecks) : wrChecks[i] = WriteOrder[i]
    /\ \A i \in 1..(Len(wrChecks) - 1) : i <= 5 => ~CheckFails(WriteOrder[i])
    /\ (wrpc = "done" /\ wrChecks # <<>>) =>
          \A i \in 1..5 :
             (CheckFails(WriteOrder[i]) /\ \A j \in 1..(i - 1) : ~CheckFails(WriteOrder[j])) =>
                /\ Len(wrChecks) = i
                /\ status = CheckStatus(WriteOrder[i])
                /\ writeSeriesCalls = 0
    /\ writeSeriesCalls <= 1
    /\ writeSeriesCalls = 1 =>
          /\ wrChecks = WriteOrder
          /\ \A i \in 1..5 : ~CheckFails(WriteOrder[i])
    /\ wrOutcome = "normalize" => writeSeriesCalls = 0

C17_Witness ==
    /\ wrpc = "done" /\ requireAuthentication /\ user = "reader"
    /\ bp.database = "db"
    /\ wrChecks = <<"decode", "database", "exists", "user", "privilege">>
    /\ status = StatusUnauthorized /\ writeSeriesCalls = 0

\* C18: whenever WriteSeries succeeds with index i, the headers sent with the
\* 200 response include the index header with the value i.
C18_IndexHeaderSent ==
    (wrpc = "done" /\ wrOutcome = "ok") =>
       (status = StatusOK /\ IndexHeader(nodeIndex) \in sentHeader)

\* C19: a write whose body yields end of input with zero bytes read ends with
\* status 200 and changes nothing: only the decode step is evaluated (no
\* database or authorization check), WriteSeries is not invoked, nothing is
\* written to the body, and the node's index is the one the request found.
C19_EmptyBodyIsNoOp ==
    (wrpc = "done" /\ gzipBody # "bad" /\ reqBody = <<>> /\ readErrAt = -1) =>
       /\ status = StatusOK /\ headerCalls = 1 /\ body = <<>>
       /\ wrOutcome = "eof"
       /\ wrChecks = <<"decode">>
       /\ writeSeriesCalls = 0
       /\ nodeIndex = index0

C19_Witness ==
    /\ wrpc = "done" /\ gzipBody = "ok" /\ reqBody = <<>> /\ readErrAt = -1
    /\ WriteTrace /\ requireAuthentication /\ user = "nil"
    /\ status = StatusOK /\ body = <<>> /\ writeSeriesCalls = 0

\* C20: for every write request whose body carries at least one byte (here:
\* a byte that is not white space), with WriteTrace on or off and whatever
\* reading the body does, status 200 is returned only when the batch was
\* accepted by WriteSeries; every other outcome is a structured error result
\* with a status that is not a success.
C20_NoSilentDrop ==
    (wrpc = "done" /\ SkipSpace(reqBody) # <<>>) =>
       IF status = StatusOK
       THEN writeSeriesCalls = 1 /\ wrOutcome = "ok" /\ nodeIndex = index0 + 1
       ELSE /\ status >= StatusBadRequest
            /\ body = <<[kind |-> "result", data |-> <<>>]>>
            /\ nodeIndex = index0

----------------------------------------------------------------------------
(* Further properties of serveQuery and serveRunMapper *)

\* C22: an error response (client- or server-error status) is never sent
\* with an empty body; stated for the query handler when it returns before
\* the receive loop, the case of the engine rejecting the query included.
C22_ErrorStatusHasBody ==
    (qpc = "failed" /\ status >= StatusBadRequest) => body # <<>>

\* C29: in chunked mode the body is, at every moment of the receive loop and
\* after it, one envelope for each non-nil result received so far, holding
\* that result alone, in the order of arrival, each flushed by the step that
\* received it; a nil item adds no envelope and the close of the channel
\* writes nothing.
C29_ChunkedOneEnvelopePerResult ==
    (chunked /\ qpc \in {"recv", "done"}) =>
       /\ Len(body) = Len(NonNil(qIn))
       /\ \A i \in 1..Len(body) :
             body[i] = [kind |-> "envelope", data |-> <<NonNil(qIn)[i]>>]
       /\ flushes = Len(body)

C29_Witness ==
    /\ chunked /\ qpc = "done"
    /\ Len(qIn) = 3 /\ qIn[2] = Nil /\ qIn[1] # Nil /\ qIn[3] # Nil
    /\ qIn[1].StatementID = 1 /\ qIn[3].StatementID = 0
    /\ Len(body) = 2 /\ flushes = 2

\* C30: a nil interval ends the session only when the mapper is exhausted
\* at that step; a nil interval of a mapper that is not exhausted is written
\* as a data frame, is counted against the chunk counter in aggregate mode
\* as any interval is, and the session goes on pulling unless that counter
\* has reached zero.
C30_NilIntervalEndsOnlyWhenEmpty ==
    [][(mpc = "next" /\ mFailedAt' = "none") =>
          /\ (mpc' = "completed" /\ body' = body) => lmLeft' = 0
          /\ (body' # body /\ body'[Len(body')] = DataFrame("nil")) =>
                /\ lmLeft' > 0
                /\ body' = Append(body, DataFrame("nil"))
                /\ flushes' = flushes + 1
                /\ mChunkSize' = IF mCall = "count(value)" THEN mChunkSize - 1 ELSE mChunkSize
                /\ mpc' = IF mCall = "count(value)" /\ mChunkSize' = 0
                          THEN "completed" ELSE "next"]_vars

C30_Witness ==
    /\ mpc = "done" /\ mFailedAt = "none" /\ mCall = "count(value)" /\ mChunkSize0 = 2
    /\ body = <<DataFrame("nil"), DataFrame("value"), CompletedFrame>>
    /\ lmLeft > 0

----------------------------------------------------------------------------
(* SetRoutes, the wrappers and authenticate: one routed request *)

Route(name, method, pattern, gzipped, log, auth) ==
    [name |-> name, method |-> method, pattern |-> pattern, gzipped |-> gzipped,
     log |-> log, auth |-> auth]

\* the routes of NewClusterHandler (lines 64-105) and NewAPIHandler (113-142);
\* auth: the handler function takes the user, so SetRoutes wraps it in authenticate
Routes ==
    { Route("data_nodes_index", "GET", "/data/data_nodes", TRUE, FALSE, FALSE),
      Route("data_nodes_create", "POST", "/data/data_nodes", TRUE, FALSE, FALSE),
      Route("data_nodes_delete", "DELETE", "/data/data_nodes/:id", TRUE, FALSE, FALSE),
      Route("metastore", "GET", "/data/metastore", FALSE, FALSE, FALSE),
      Route("shard", "GET", "/data/shard/:id", FALSE, FALSE, FALSE),
      Route("process_continuous_queries", "POST", "/data/process_continuous_queries",
            FALSE, FALSE, FALSE),
      Route("index", "GET", "/data", TRUE, TRUE, FALSE),
      Route("wait", "GET", "/data/wait/:index", TRUE, TRUE, FALSE),
      Route("run_mapper", "POST", "/data/run_mapper", TRUE, TRUE, FALSE),
      Route("snapshot", "GET", "/data/snapshot", TRUE, TRUE, FALSE),
      Route("query", "GET", "/query", TRUE, TRUE, TRUE),
      Route("write", "OPTIONS", "/write", TRUE, TRUE, FALSE),
      Route("write", "POST", "/write", TRUE, TRUE, TRUE),
      Route("status", "GET", "/status", TRUE, TRUE, FALSE),
      Route("ping", "GET", "/ping", TRUE, TRUE, FALSE),
      Route("ping-head", "HEAD", "/ping", TRUE, TRUE, FALSE),
      Route("dump", "GET", "/dump", TRUE, TRUE, TRUE) }

\* handler = wrapper(handler): the wrapper is entered first from now on
Wrap(chain, wrapper) == <<wrapper>> \o chain

\* the handler SetRoutes registers for route r (lines 160-184), as the list of
\* the wrappers a request enters, outermost first, down to the handler function
SetRoutes(r, logOn) ==
    LET h0 == IF r.auth THEN <<"authenticate">> ELSE <<"handler">>
        h1 == IF r.gzipped THEN Wrap(h0, "gzipFilter") ELSE h0
        h2 == Wrap(h1, "versionHeader")
        h3 == Wrap(h2, "cors")
        h4 == Wrap(h3, "requestID")
        h5 == IF logOn /\ r.log THEN Wrap(h4, "logging") ELSE h4
    IN Wrap(h5, "recovery")

VersionHeader == [name |-> "X-InfluxDB-Version", value |-> <<"version">>]
RequestIdHeader == [name |-> "Request-Id", value |-> <<"uuid">>]
ContentEncodingHeader == [name |-> "Content-Encoding", value |-> <<"gzip">>]
\* strings.Join(a, sep)
RECURSIVE Join(_, _)
Join(a, sep) ==
    IF a = <<>> THEN <<>>
    ELSE IF Len(a) = 1 THEN a
    ELSE <<Head(a), sep>> \o Join(Tail(a), sep)

CorsHeaders ==
    { [name |-> "Access-Control-Allow-Origin", value |-> <<"origin">>],
      [name |-> "Access-Control-Allow-Methods",
       value |-> Join(<<"DELETE", "GET", "OPTIONS", "POST", "PUT">>, ", ")],
      [name |-> "Access-Control-Allow-Headers",
       value |-> Join(<<"Accept", "Accept-Encoding", "Authorization", "Content-Length",
                        "Content-Type", "X-CSRF-Token", "X-HTTP-Method-Override">>, ", ")] }

\* what authenticate can find on a request: no credentials, basic auth with
\* an empty user name, credentials the server rejects, those of a user with
\* and of a user without the write privilege
Creds == {"none", "anonymous", "bad", "writer", "reader"}

\* the status a handler function not modelled here leaves (0: it writes none)
HandlerStatuses == {0, StatusOK, StatusInternalServerError}

InitRouteSpec ==
    /\ status = 0 /\ headerCalls = 0 /\ body = <<>> /\ flushes = 0
    /\ qpc = "idle" /\ chunked = FALSE /\ res = <<>> /\ statusWritten = FALSE /\ qIn = <<>>
    /\ wpc = "idle" /\ indexParam = <<>> /\ timeoutParam = <<>> /\ notifierOk = FALSE
    /\ nodeIndex = 0 /\ timedOut = 0 /\ aborted = 0
    /\ timer = "none" /\ timerLeft = 0 /\ timerC = 0 /\ timerG = "none" /\ watchG = "none"
    /\ clientGone = FALSE /\ sleepLeft = 0 /\ wOutcome = "none" /\ idxAtExit = 0 /\ idxAtSignal = -1
    /\ sinceFire = 0 /\ sleepsAfterAbort = 0
    /\ mpc = "idle"
    /\ mCall = "" /\ mChunkSize = 0 /\ mChunkSize0 = 0
    /\ lmLeft = 0 /\ lmOpens = 0 /\ lmCloses = 0 /\ lmDeferred = FALSE
    /\ mFailedAt = "none"
    /\ dpc = "idle" /\ measurements = <<>> /\ dIdx = 0 /\ dRecv = 0 /\ dLog = <<>>
    /\ dFailed = "none"
    /\ wrpc = "idle" /\ WriteTrace = FALSE /\ gzipBody = "none" /\ reqBody = <<>>
    /\ readErrAt = -1
    /\ requireAuthentication \in BOOLEAN
    /\ user = "nil"
    /\ dec = [bytes |-> <<>>, readErr |-> FALSE] /\ bp = [database |-> ""]
    /\ wrChecks = <<>> /\ writeSeriesCalls = 0 /\ header = {} /\ sentHeader = {}
    /\ index0 = 0 /\ wrOutcome = "none"
    /\ rpc = "chain"
    /\ route \in Routes
    /\ reqOrigin \in BOOLEAN
    /\ acceptGzip \in BOOLEAN
    /\ loggingEnabled \in BOOLEAN
    /\ rChain = SetRoutes(route, loggingEnabled)
    /\ userCount = -1 /\ creds = "none"
    /\ aOutcome = "none"
    /\ bpc = "idle" /\ configExists = FALSE /\ brokerDirExists = FALSE
    /\ dataDirExists = FALSE /\ joinFlag = <<>> /\ configJoin = <<>> /\ cqDisable = FALSE
    /\ retentionEnabled = FALSE /\ reportingDisabled = FALSE /\ initBroker = FALSE
    /\ initServer = FALSE /\ joinURLs = <<>> /\ joinIdx = 0 /\ bootLog = <<>>

\* recovery (lines 1022-1034): the inner handler is called on a responseLogger
RouteRecovery ==
    /\ rpc = "chain" /\ Head(rChain) = "recovery"
    /\ rChain' = Tail(rChain)
    /\ UNCHANGED <<respVars, queryVars, waitVars, mapVars, dumpVars, writeVars, bootVars,
                   rpc, route, reqOrigin, acceptGzip, loggingEnabled, userCount, creds,
                   aOutcome>>

\* logging (lines 1012-1020)
RouteLogging ==
    /\ rpc = "chain" /\ Head(rChain) = "logging"
    /\ rChain' = Tail(rChain)
    /\ UNCHANGED <<respVars, queryVars, waitVars, mapVars, dumpVars, writeVars, bootVars,
                   rpc, route, reqOrigin, acceptGzip, loggingEnabled, userCount, creds,
                   aOutcome>>

\* requestID (lines 1002-1010)
RouteRequestID ==
    /\ rpc = "chain" /\ Head(rChain) = "requestID"
    /\ header' = header \cup {RequestIdHeader}
    /\ rChain' = Tail(rChain)
    /\ UNCHANGED <<respVars, queryVars, waitVars, mapVars, dumpVars, writeReqVars, sentHeader,
                   bootVars, rpc, route, reqOrigin, acceptGzip, loggingEnabled, userCount,
                   creds, aOutcome>>

\* cors (lines 971-1000): the headers are set for a request with an Origin;
\* an OPTIONS request is answered here, the inner handler is not called
RouteCors ==
    /\ rpc = "chain" /\ Head(rChain) = "cors"
    /\ header' = IF reqOrigin THEN header \cup CorsHeaders ELSE header
    /\ IF route.method = "OPTIONS"
       THEN rpc' = "finish" /\ UNCHANGED rChain
       ELSE rChain' = Tail(rChain) /\ UNCHANGED rpc
    /\ UNCHANGED <<respVars, queryVars, waitVars, mapVars, dumpVars, writeReqVars, sentHeader,
                   bootVars, route, reqOrigin, acceptGzip, loggingEnabled, userCount, creds,
                   aOutcome>>

\* versionHeader (lines 962-967)
RouteVersionHeader ==
    /\ rpc = "chain" /\ Head(rChain) = "versionHeader"
    /\ header' = header \cup {VersionHeader}
    /\ rChain' = Tail(rChain)
    /\ UNCHANGED <<respVars, queryVars, waitVars, mapVars, dumpVars, writeReqVars, sentHeader,
                   bootVars, rpc, route, reqOrigin, acceptGzip, loggingEnabled, userCount,
                   creds, aOutcome>>

\* gzipFilter (lines 946-958)
RouteGzipFilter ==
    /\ rpc = "chain" /\ Head(rChain) = "gzipFilter"
    /\ header' = IF acceptGzip THEN header \cup {ContentEncodingHeader} ELSE header
    /\ rChain' = Tail(rChain)
    /\ UNCHANGED <<respVars, queryVars, waitVars, mapVars, dumpVars, writeReqVars, sentHeader,
                   bootVars, rpc, route, reqOrigin, acceptGzip, loggingEnabled, userCount,
                   creds, aOutcome>>

\* a handler function that takes no user is called and returns
RouteHandler ==
    /\ rpc = "chain" /\ Head(rChain) = "handler"
    /\ \E code \in HandlerStatuses :
          IF code = 0
          THEN UNCHANGED <<status, headerCalls, sentHeader>>
          ELSE SendHeader(code, header)
    /\ rpc' = "finish"
    /\ UNCHANGED <<body, flushes, queryVars, waitVars, mapVars, dumpVars, writeReqVars, header,
                   bootVars, route, reqOrigin, acceptGzip, loggingEnabled, rChain, userCount,
                   creds, aOutcome>>

\* authenticate rejects the request (lines 913-926): httpError with 401
AuthReject(why) ==
    /\ httpError(StatusUnauthorized)
    /\ header' = header \cup {ContentTypeHeader}
    /\ sentHeader' = IF status = 0 THEN header' ELSE sentHeader
    /\ aOutcome' = why
    /\ rpc' = "finish"
    /\ UNCHANGED <<writeReqVars, nodeIndex>>

\* authenticate calls inner(w, r, u): serveWrite is entered with the request's
\* body; serveQuery and serveDump hand u on to ExecuteQuery and leave a status
AuthInner(u) ==
    /\ aOutcome' = "inner"
    /\ user' = u
    /\ IF route.name = "write"
       THEN /\ wrpc' = "start"
            /\ rpc' = "inner"
            /\ WriteTrace' \in BOOLEAN
            /\ gzipBody' \in {"none", "ok", "bad"}
            /\ reqBody' \in ReqBodies
            /\ readErrAt' \in (-1)..Len(reqBody')
            /\ index0' = nodeIndex
            /\ UNCHANGED <<respVars, header, sentHeader>>
       ELSE /\ \E code \in HandlerStatuses \cup {StatusUnauthorized} :
                  IF code = 0
                  THEN UNCHANGED <<status, headerCalls, sentHeader>>
                  ELSE SendHeader(code, header)
            /\ rpc' = "finish"
            /\ UNCHANGED <<body, flushes, header, wrpc, WriteTrace, gzipBody, reqBody,
                           readErrAt, index0>>
    /\ UNCHANGED <<requireAuthentication, dec, bp, wrChecks, writeSeriesCalls, wrOutcome,
                   nodeIndex>>

\* authenticate (lines 901-930)
RouteAuthenticate ==
    /\ rpc = "chain" /\ Head(rChain) = "authenticate"
    /\ IF ~requireAuthentication
       THEN /\ AuthInner("nil")
            /\ UNCHANGED <<userCount, creds>>
       ELSE \E n \in {0, 1}, c \in Creds :
               /\ userCount' = n
               /\ creds' = c
               /\ IF n > 0
                  THEN IF c = "none" THEN AuthReject("credentials")
                       ELSE IF c = "anonymous" THEN AuthReject("username")
                       ELSE IF c = "bad" THEN AuthReject("authenticate")
                       ELSE AuthInner(c)
                  ELSE AuthInner("nil")
    /\ UNCHANGED <<queryVars, waitReqVars, mapVars, dumpVars, bootVars, route, reqOrigin,
                   acceptGzip, loggingEnabled, rChain>>

\* the handler chain has returned: the server ends the response, with status
\* 200 and the header map as it is now if no status was written
RouteFinish ==
    /\ \/ rpc = "finish"
       \/ rpc = "inner" /\ wrpc = "done"
    /\ rpc' = "done"
    /\ status' = WriteStatus(status)
    /\ sentHeader' = IF status = 0 THEN header ELSE sentHeader
    /\ UNCHANGED <<headerCalls, body, flushes, queryVars, waitVars, mapVars, dumpVars,
                   writeReqVars, header, bootVars, route, reqOrigin, acceptGzip,
                   loggingEnabled, rChain, userCount, creds, aOutcome>>

NextRoute ==
    \/ RouteRecovery
    \/ RouteLogging
    \/ RouteRequestID
    \/ RouteCors
    \/ RouteVersionHeader
    \/ RouteGzipFilter
    \/ RouteHandler
    \/ RouteAuthenticate
    \/ RouteFinish
    \/ NextWrite

SpecRoute == InitRouteSpec /\ [][NextRoute]_vars

----------------------------------------------------------------------------
(* Properties of the routed request *)

\* C21: when authentication is required and the server has no user, a
\* request without credentials to an authenticated route (/query, /write,
\* /dump) is never answered with status 401 for lack of a principal: neither
\* authenticate nor the principal check of the write path rejects it.
C21_NoUsersNoUnauthorized ==
    (requireAuthentication /\ userCount = 0 /\ creds = "none" /\ rpc = "done") =>
       /\ aOutcome = "inner"
       /\ ~(status = StatusUnauthorized /\ wrOutcome = "user")

\* C23: every response of every registered route carries the version header
\* in the headers sent, for every request method, OPTIONS included.
C23_VersionHeaderOnEveryResponse ==
    rpc = "done" => VersionHeader \in sentHeader

----------------------------------------------------------------------------
(* Run: opening, initializing or joining the broker and the server *)

MaxJoinURLs == 3       \* URLs in a join list

notBootVars == <<respVars, queryVars, waitVars, mapVars, dumpVars, writeVars, routeVars>>
bootInputs == <<configExists, brokerDirExists, dataDirExists, joinFlag, configJoin>>

AllURLs == <<"u1", "u2", "u3", "u4", "u5">>
URLs == {AllURLs[i] : i \in 1..MaxJoinURLs}

\* the lists of at most MaxJoinURLs different URLs
RECURSIVE URLLists(_)
URLLists(n) ==
    IF n = 0 THEN {<<>>}
    ELSE LET shorter == URLLists(n - 1)
         IN shorter \cup {Append(l, u) : l \in shorter, u \in URLs}

NoRepeat(l) == \A i, j \in 1..Len(l) : l[i] = l[j] => i = j

\* the texts of the --join flag: comma-delimited lists of URLs, the empty
\* text, and one text url.Parse rejects
JoinFlags ==
    {Join(l, ",") : l \in {m \in URLLists(MaxJoinURLs) : NoRepeat(m)}} \cup {<<"%">>}

\* the texts of the join-urls setting of a configuration file
ConfigJoins == {<<>>, <<"c1">>, <<"c1", ",", "c2">>}

\* strings.Split(s, ","): the pieces of s between the commas
RECURSIVE Split(_)
Split(s) ==
    IF s = <<>> THEN <<<<>>>>
    ELSE IF Head(s) = "," THEN <<<<>>>> \o Split(Tail(s))
    ELSE LET rest == Split(Tail(s))
         IN <<<<Head(s)>> \o Head(rest)>> \o Tail(rest)

\* url.Parse fails on an invalid escape
ParseFails(piece) == \E i \in 1..Len(piece) : piece[i] = "%"

\* url.Parse of a piece that parses: the URL it names
ParseURL(piece) == IF piece = <<>> THEN "" ELSE piece[1]

\* parseURLs (lines 1456-1469) ends the process on a piece that does not parse
parseURLsFatal(s) ==
    s # <<>> /\ \E i \in 1..Len(Split(s)) : ParseFails(Split(s)[i])

\* parseURLs (lines 1456-1469)
parseURLs(s) ==
    IF s = <<>> THEN <<>>
    ELSE [i \in 1..Len(Split(s)) |-> ParseURL(Split(s)[i])]

\* b.URL()
BrokerURL == "broker"

Event(op, arg, ok) == [op |-> op, arg |-> arg, ok |-> ok]

joinStepKeepsGoing(ok, attempts, n) ==
    IF attempts < n THEN "retry" ELSE IF ok THEN "joined" ELSE "fatal"

\* one turn of the loop of joinBroker (1345-1353) and joinServer (1432-1440)
\* after an attempt: return on success, next URL on failure, Fatalf after the last
joinStep(ok, attempts, n) ==
    IF ok THEN "joined" ELSE IF attempts < n THEN "retry" ELSE "fatal"

brokerListenEventsLoopFirst(disable) ==
    (IF disable THEN <<>> ELSE <<Event("RunContinuousQueryLoop", <<>>, TRUE)>>)
       \o <<Event("broker.Listen", <<>>, TRUE)>>

\* Run, lines 1138-1159, when net.Listen succeeds
brokerListenEvents(disable) ==
    <<Event("broker.Listen", <<>>, TRUE)>>
       \o (IF disable THEN <<>> ELSE <<Event("RunContinuousQueryLoop", <<>>, TRUE)>>)

clientTargetJoinURLs(cfg, urls) ==
    IF Len(urls) = 0 THEN <<BrokerURL>> ELSE urls

\* the URLs openServer hands to openServerClient (lines 1382-1394)
clientTarget(cfg, urls) ==
    IF ~cfg THEN <<BrokerURL>>
    ELSE IF Len(urls) = 0 THEN <<BrokerURL>> ELSE urls

\* the calls of initializeServer (lines 1399-1425) in order
initializeServerCalls(initB) ==
    (IF initB THEN <<Event("broker.CreateReplica", <<>>, TRUE)>> ELSE <<>>)
       \o <<Event("client.Open", <<BrokerURL>>, TRUE), Event("server.SetClient", <<>>, TRUE)>>
       \o (IF initB THEN <<Event("server.Initialize", <<BrokerURL>>, TRUE)>> ELSE <<>>)

\* the calls of openServerClient (lines 1444-1453) in order
openServerClientCalls(target) ==
    <<Event("client.Open", target, TRUE), Event("server.SetClient", <<>>, TRUE)>>

\* a sequence of calls of which the k-th fails (all succeed when k = 0): a
\* failed call is followed by log.Fatalf
FailAt(calls, k) ==
    IF k = 0 THEN calls
    ELSE Append(SubSeq(calls, 1, k - 1), [calls[k] EXCEPT !.ok = FALSE])

InitBootSpec ==
    /\ status = 0 /\ headerCalls = 0 /\ body = <<>> /\ flushes = 0
    /\ qpc = "idle" /\ chunked = FALSE /\ res = <<>> /\ statusWritten = FALSE /\ qIn = <<>>
    /\ wpc = "idle" /\ indexParam = <<>> /\ timeoutParam = <<>> /\ notifierOk = FALSE
    /\ nodeIndex = 0 /\ timedOut = 0 /\ aborted = 0
    /\ timer = "none" /\ timerLeft = 0 /\ timerC = 0 /\ timerG = "none" /\ watchG = "none"
    /\ clientGone = FALSE /\ sleepLeft = 0 /\ wOutcome = "none" /\ idxAtExit = 0 /\ idxAtSignal = -1
    /\ sinceFire = 0 /\ sleepsAfterAbort = 0
    /\ mpc = "idle"
    /\ mCall = "" /\ mChunkSize = 0 /\ mChunkSize0 = 0
    /\ lmLeft = 0 /\ lmOpens = 0 /\ lmCloses = 0 /\ lmDeferred = FALSE
    /\ mFailedAt = "none"
    /\ dpc = "idle" /\ measurements = <<>> /\ dIdx = 0 /\ dRecv = 0 /\ dLog = <<>>
    /\ dFailed = "none"
    /\ wrpc = "idle" /\ WriteTrace = FALSE /\ gzipBody = "none" /\ reqBody = <<>>
    /\ readErrAt = -1 /\ requireAuthentication = FALSE /\ user = "nil"
    /\ dec = [bytes |-> <<>>, readErr |-> FALSE] /\ bp = [database |-> ""]
    /\ wrChecks = <<>> /\ writeSeriesCalls = 0 /\ header = {} /\ sentHeader = {}
    /\ index0 = 0 /\ wrOutcome = "none"
    /\ rpc = "idle" /\ route = NoRoute /\ reqOrigin = FALSE /\ acceptGzip = FALSE
    /\ loggingEnabled = FALSE /\ rChain = <<>> /\ userCount = -1 /\ creds = "none"
    /\ aOutcome = "none"
    /\ bpc = "run"
    /\ configExists \in BOOLEAN
    /\ brokerDirExists \in BOOLEAN
    /\ dataDirExists \in BOOLEAN
    /\ joinFlag \in JoinFlags
    /\ configJoin \in IF configExists THEN ConfigJoins ELSE {<<>>}
    /\ cqDisable = FALSE /\ retentionEnabled = FALSE /\ reportingDisabled = FALSE
    /\ initBroker = FALSE /\ initServer = FALSE
    /\ joinURLs = <<>> /\ joinIdx = 0 /\ bootLog = <<>>

\* Run, lines 1108-1129
BootRun ==
    /\ bpc = "run"
    /\ initBroker' = ~brokerDirExists
    /\ initServer' = (~dataDirExists \/ initBroker')
    /\ LET join == IF joinFlag = <<>> THEN configJoin ELSE joinFlag
       IN IF parseURLsFatal(join)
          THEN /\ bpc' = "fatal"
               /\ bootLog' = Append(bootLog, Event("parseURLs", <<>>, FALSE))
               /\ UNCHANGED joinURLs
          ELSE /\ bpc' = "openBroker"
               /\ joinURLs' = parseURLs(join)
               /\ UNCHANGED bootLog
    /\ UNCHANGED <<notBootVars, bootInputs, cqDisable, retentionEnabled, reportingDisabled,
                   joinIdx>>

\* openBroker, lines 1312-1333: b.Open and the choice between initializeBroker
\* and joinBroker
BootOpenBroker ==
    /\ bpc = "openBroker"
    /\ \E ok \in BOOLEAN :
          /\ bootLog' = Append(bootLog, Event("broker.Open", <<>>, ok))
          /\ bpc' = IF ~ok THEN "fatal"
                    ELSE IF initBroker
                         THEN IF Len(joinURLs) = 0 THEN "initializeBroker" ELSE "joinBroker"
                         ELSE "brokerListen"
    /\ joinIdx' = 0
    /\ UNCHANGED <<notBootVars, bootInputs, cqDisable, retentionEnabled, reportingDisabled,
                   initBroker, initServer, joinURLs>>

\* initializeBroker, lines 1336-1340
BootInitializeBroker ==
    /\ bpc = "initializeBroker"
    /\ \E ok \in BOOLEAN :
          /\ bootLog' = Append(bootLog, Event("broker.Initialize", <<>>, ok))
          /\ bpc' = IF ok THEN "brokerListen" ELSE "fatal"
    /\ UNCHANGED <<notBootVars, bootInputs, cqDisable, retentionEnabled, reportingDisabled,
                   initBroker, initServer, joinURLs, joinIdx>>

\* joinBroker, lines 1343-1354: one attempt of the loop
BootJoinBroker ==
    /\ bpc = "joinBroker"
    /\ joinIdx < Len(joinURLs)
    /\ joinIdx' = joinIdx + 1
    /\ \E ok \in BOOLEAN :
          /\ bootLog' = Append(bootLog, Event("broker.Join", <<joinURLs[joinIdx']>>, ok))
          /\ LET to == joinStep(ok, joinIdx', Len(joinURLs))
             IN bpc' = IF to = "joined" THEN "brokerListen"
                       ELSE IF to = "retry" THEN "joinBroker" ELSE "fatal"
    /\ UNCHANGED <<notBootVars, bootInputs, cqDisable, retentionEnabled, reportingDisabled,
                   initBroker, initServer, joinURLs>>

\* Run, lines 1138-1159: the broker handler listens, then the continuous
\* query loop is started unless disabled
BootBrokerListen ==
    /\ bpc = "brokerListen"
    /\ cqDisable' \in BOOLEAN
    /\ \E ok \in BOOLEAN :
          IF ok
          THEN /\ bootLog' = bootLog \o brokerListenEvents(cqDisable')
               /\ bpc' = "openServer"
          ELSE /\ bootLog' = Append(bootLog, Event("broker.Listen", <<>>, FALSE))
               /\ bpc' = "fatal"
    /\ UNCHANGED <<notBootVars, bootInputs, retentionEnabled, reportingDisabled,
                   initBroker, initServer, joinURLs, joinIdx>>

\* openServer, lines 1357-1380: s.Open and the choice between
\* initializeServer and joinServer
BootOpenServer ==
    /\ bpc = "openServer"
    /\ \E ok \in BOOLEAN :
          /\ bootLog' = Append(bootLog, Event("server.Open", <<>>, ok))
          /\ bpc' = IF ~ok THEN "fatal"
                    ELSE IF initServer
                         THEN IF Len(joinURLs) = 0 THEN "initializeServer" ELSE "joinServer"
                         ELSE "openServerClient"
    /\ joinIdx' = 0
    /\ UNCHANGED <<notBootVars, bootInputs, cqDisable, retentionEnabled, reportingDisabled,
                   initBroker, initServer, joinURLs>>

\* initializeServer, lines 1399-1425: any of its calls may fail
BootInitializeServer ==
    /\ bpc = "initializeServer"
    /\ \E k \in 0..Len(initializeServerCalls(initBroker)) :
          /\ bootLog' = bootLog \o FailAt(initializeServerCalls(initBroker), k)
          /\ bpc' = IF k = 0 THEN "openServerClient" ELSE "fatal"
    /\ UNCHANGED <<notBootVars, bootInputs, cqDisable, retentionEnabled, reportingDisabled,
                   initBroker, initServer, joinURLs, joinIdx>>

\* joinServer, lines 1428-1441: one attempt of the loop
BootJoinServer ==
    /\ bpc = "joinServer"
    /\ joinIdx < Len(joinURLs)
    /\ joinIdx' = joinIdx + 1
    /\ \E ok \in BOOLEAN :
          /\ bootLog' = Append(bootLog, Event("server.Join", <<joinURLs[joinIdx']>>, ok))
          /\ LET to == joinStep(ok, joinIdx', Len(joinURLs))
             IN bpc' = IF to = "joined" THEN "openServerClient"
                       ELSE IF to = "retry" THEN "joinServer" ELSE "fatal"
    /\ UNCHANGED <<notBootVars, bootInputs, cqDisable, retentionEnabled, reportingDisabled,
                   initBroker, initServer, joinURLs>>

\* openServer, lines 1382-1396: openServerClient, then openServer returns
BootOpenServerClient ==
    /\ bpc = "openServerClient"
    /\ LET calls == openServerClientCalls(clientTarget(configExists, joinURLs))
       IN \E k \in 0..Len(calls) :
             /\ bootLog' = bootLog \o FailAt(calls, k)
                              \o (IF k = 0 THEN <<Event("openServer", <<>>, TRUE)>> ELSE <<>>)
             /\ bpc' = IF k = 0 THEN "retention" ELSE "fatal"
    /\ UNCHANGED <<notBootVars, bootInputs, cqDisable, retentionEnabled, reportingDisabled,
                   initBroker, initServer, joinURLs, joinIdx>>

\* Run, lines 1165-1172
BootRetention ==
    /\ bpc = "retention"
    /\ retentionEnabled' \in BOOLEAN
    /\ IF retentionEnabled'
       THEN \E ok \in BOOLEAN :
               /\ bootLog' = Append(bootLog,
                                    Event("StartRetentionPolicyEnforcement", <<>>, ok))
               /\ bpc' = IF ok THEN "shardPreCreate" ELSE "fatal"
       ELSE /\ bpc' = "shardPreCreate"
            /\ UNCHANGED bootLog
    /\ UNCHANGED <<notBootVars, bootInputs, cqDisable, reportingDisabled,
                   initBroker, initServer, joinURLs, joinIdx>>

\* Run, lines 1174-1179
BootShardPreCreate ==
    /\ bpc = "shardPreCreate"
    /\ \E ok \in BOOLEAN :
          /\ bootLog' = Append(bootLog, Event("StartShardGroupsPreCreate", <<>>, ok))
          /\ bpc' = IF ok THEN "serverListen" ELSE "fatal"
    /\ UNCHANGED <<notBootVars, bootInputs, cqDisable, retentionEnabled, reportingDisabled,
                   initBroker, initServer, joinURLs, joinIdx>>

\* Run, lines 1182-1197: the data node handler is attached to the broker's
\* listener when both have one address, else it listens on its own
BootServerListen ==
    /\ bpc = "serverListen"
    /\ \E sameAddr \in BOOLEAN, ok \in BOOLEAN :
          /\ sameAddr => ok
          /\ bootLog' = Append(bootLog, Event("server.Listen", <<>>, ok))
          /\ bpc' = IF ok THEN "services" ELSE "fatal"
    /\ UNCHANGED <<notBootVars, bootInputs, cqDisable, retentionEnabled, reportingDisabled,
                   initBroker, initServer, joinURLs, joinIdx>>

\* Run, lines 1199-1257: the admin, collectd, UDP and Graphite servers; a
\* Graphite server that cannot be set up ends the process
BootServices ==
    /\ bpc = "services"
    /\ \E ok \in BOOLEAN :
          /\ bootLog' = Append(bootLog, Event("services", <<>>, ok))
          /\ bpc' = IF ok THEN "reporting" ELSE "fatal"
    /\ UNCHANGED <<notBootVars, bootInputs, cqDisable, retentionEnabled, reportingDisabled,
                   initBroker, initServer, joinURLs, joinIdx>>

\* Run, lines 1260-1270: the reporting loop is started unless disabled, when
\* the broker's log has a configuration
BootReporting ==
    /\ bpc = "reporting"
    /\ reportingDisabled' \in BOOLEAN
    /\ \E configObj \in BOOLEAN :
          bootLog' = IF ~reportingDisabled' /\ configObj
                     THEN Append(bootLog, Event("StartReportingLoop", <<>>, TRUE))
                     ELSE bootLog
    /\ bpc' = "running"
    /\ UNCHANGED <<notBootVars, bootInputs, cqDisable, retentionEnabled,
                   initBroker, initServer, joinURLs, joinIdx>>

NextBoot ==
    \/ BootRun
    \/ BootOpenBroker
    \/ BootInitializeBroker
    \/ BootJoinBroker
    \/ BootBrokerListen
    \/ BootOpenServer
    \/ BootInitializeServer
    \/ BootJoinServer
    \/ BootOpenServerClient
    \/ BootRetention
    \/ BootShardPreCreate
    \/ BootServerListen
    \/ BootServices
    \/ BootReporting

SpecBoot == InitBootSpec /\ [][NextBoot]_vars

----------------------------------------------------------------------------
(* Properties of Run *)

\* the call op was made and succeeded
Has(op) == \E i \in DOMAIN bootLog : bootLog[i].op = op /\ bootLog[i].ok

\* the call op succeeded before the i-th event
Before(op, i) == \E j \in 1..(i - 1) : bootLog[j].op = op /\ bootLog[j].ok

\* the calls of op, in order
Attempts(op) == SelectSeq(bootLog, LAMBDA e : e.op = op)

\* openServer has returned: the broker and the server are constructed
ServerConstructed == Has("openServer")

LoopOps ==
    {"RunContinuousQueryLoop", "StartRetentionPolicyEnforcement",
     "StartShardGroupsPreCreate", "StartReportingLoop"}

\* C24: once both are constructed, the broker was initialized or joined
\* exactly when its directory was absent, and the server was initialized or
\* joined exactly when the data directory was absent or the broker needed
\* initialization.
C24_InitializedOrJoinedIffNeeded ==
    ServerConstructed =>
       /\ (Has("broker.Initialize") \/ Has("broker.Join")) <=> ~brokerDirExists
       /\ (Has("server.Initialize") \/ Has("server.Join"))
             <=> (~dataDirExists \/ ~brokerDirExists)

\* C25: the join attempts of joinBroker and of joinServer go through the
\* join URLs in order, one attempt per URL; every attempt but the last has
\* failed; after a successful attempt the loop is left and the bootstrap
\* goes on; after the attempt on the last URL has failed the process has
\* ended fatally and nothing follows.
C25_JoinRetryInOrderFirstSuccessWins ==
    \A op \in {"broker.Join", "server.Join"} :
       LET a == Attempts(op)
           n == Len(joinURLs)
           loop == IF op = "broker.Join" THEN "joinBroker" ELSE "joinServer"
           goesOn == IF op = "broker.Join" THEN "brokerListen" ELSE "openServerClient"
       IN /\ Len(a) <= n
          /\ \A i \in 1..Len(a) :
                /\ a[i].arg = <<joinURLs[i]>>
                /\ i < Len(a) => ~a[i].ok
          /\ (a # <<>> /\ bpc = loop) => (~a[Len(a)].ok /\ Len(a) < n)
          /\ (a # <<>> /\ bpc # loop /\ ~a[Len(a)].ok) =>
                /\ Len(a) = n
                /\ bpc = "fatal"
                /\ bootLog[Len(bootLog)] = a[Len(a)]
          /\ (a # <<>> /\ a[Len(a)].ok /\ bootLog[Len(bootLog)] = a[Len(a)]) =>
                bpc = goesOn

C25_Witness ==
    /\ joinURLs = <<"u1", "u2", "u3">>
    /\ Attempts("broker.Join") = <<Event("broker.Join", <<"u1">>, FALSE),
                                   Event("broker.Join", <<"u2">>, FALSE),
                                   Event("broker.Join", <<"u3">>, TRUE)>>
    /\ bpc = "brokerListen"

\* C26 as stated: no background loop is started before openServer has returned.
C26_NoLoopBeforeServerConstructed ==
    \A i \in DOMAIN bootLog :
       bootLog[i].op \in LoopOps => Before("openServer", i)

\* C26: retention enforcement, shard-group pre-creation and usage reporting
\* are started only after openServer has returned; the continuous-query loop
\* is started once the broker is open, initialized or joined if needed, and
\* listening, and before the server is opened.
C26_LoopsAfterTheirComponent ==
    \A i \in DOMAIN bootLog :
       /\ bootLog[i].op \in LoopOps \ {"RunContinuousQueryLoop"} => Before("openServer", i)
       /\ bootLog[i].op = "RunContinuousQueryLoop" =>
             /\ Before("broker.Open", i)
             /\ initBroker => (Before("broker.Initialize", i) \/ Before("broker.Join", i))
             /\ i > 1 /\ bootLog[i - 1] = Event("broker.Listen", <<>>, TRUE)
             /\ \A j \in 1..(i - 1) : bootLog[j].op # "server.Open"

C26_Witness ==
    /\ bpc = "running"
    /\ \A op \in LoopOps : Has(op)
    /\ \E i, j \in DOMAIN bootLog :
          /\ i < j
          /\ bootLog[i].op = "RunContinuousQueryLoop"
          /\ bootLog[j].op = "server.Open"

\* C27: when the server needs initialization and there are no join URLs, a
\* replica has been created on the broker by the time the server is
\* constructed, and a client was set on the server before the data node
\* listens.
C27_FreshServerReplicaAndClient ==
    (initServer /\ joinURLs = <<>> /\ ServerConstructed) =>
       /\ Has("broker.CreateReplica")
       /\ \A i \in DOMAIN bootLog :
             bootLog[i].op = "server.Listen" => Before("server.SetClient", i)

\* C28 as stated: a server that needs no initialization gets one client,
\* opened on the join URLs when there are any and on the broker's URL when
\* there are none.
C28_RestoredServerClientOnJoinURLs ==
    (bpc # "run" /\ ~initServer /\ ServerConstructed) =>
       Attempts("client.Open")
          = <<Event("client.Open",
                    IF joinURLs # <<>> THEN joinURLs ELSE <<BrokerURL>>, TRUE)>>

\* C28: a server that needs no initialization gets one client; it is opened
\* on the join URLs when a configuration was supplied and there are join
\* URLs, and on the broker's URL otherwise.
C28_RestoredServerClientTarget ==
    (bpc # "run" /\ ~initServer /\ ServerConstructed) =>
       Attempts("client.Open")
          = <<Event("client.Open",
                    IF configExists /\ joinURLs # <<>> THEN joinURLs ELSE <<"broker">>,
                    TRUE)>>

C28_Witness ==
    /\ bpc = "running" /\ ~initServer
    /\ ~configExists
    /\ joinURLs = <<"u2", "u1">>
    /\ Attempts("client.Open") = <<Event("client.Open", <<"broker">>, TRUE)>>

----------------------------------------------------------------------------
(* Further properties of serveWait *)

\* the timeout parameters that are absent, no number, or not above zero
NoTimeoutParams == {<<>>, <<"x">>, <<"-", "5">>, <<"0">>}

\* C31: a wait request whose timeout parameter is absent, unparsable or not
\* above zero never gets request-timeout status: no timer task exists, the
\* timed-out flag stays clear, and the request ends only by a poll that
\* read the index at or above the target or by the aborted flag set after
\* the client left (or at once with bad request when the target is zero).
C31_NoTimeoutWaitsIndefinitely ==
    (timeoutParam \in NoTimeoutParams /\ wpc \notin {"idle", "start"}) =>
       /\ status # StatusRequestTimeout
       /\ timedOut = 0
       /\ timerG = "none"
       /\ timer \in {"none", "never", "stopped"}
       /\ wpc = "done" =>
             \/ wOutcome = "index" /\ idxAtExit >= ParseUint(indexParam)
             \/ wOutcome = "aborted" /\ clientGone /\ aborted = 1
             \/ wOutcome = "badrequest" /\ ParseUint(indexParam) = 0

C31_Witness ==
    /\ timeoutParam = <<"-", "5">>
    /\ wpc = "done" /\ wOutcome = "aborted"
    /\ nodeIndex < index
    /\ status = 0 /\ body = <<>>

\* the response of a finished wait request with a target above zero
C32_OneOutcome ==
    (wpc = "done" /\ ParseUint(indexParam) > 0) =>
       /\ wOutcome \in {"index", "timeout", "aborted"}
       /\ wOutcome = "index" =>
             /\ body = <<[kind |-> "index", data |-> <<idxAtExit>>]>>
             /\ status = StatusOK /\ headerCalls = 0
       /\ wOutcome = "timeout" =>
             /\ body = <<>> /\ status = StatusRequestTimeout /\ headerCalls = 1
       /\ wOutcome = "aborted" =>
             /\ body = <<>> /\ status = 0 /\ headerCalls = 0

\* one step of the handler's poll: the index is compared first, the aborted
\* flag is looked at only after the index was below the target, the
\* timed-out flag only after the aborted flag was clear
C32_PollStep ==
    /\ (wpc = "poll" /\ wpc' # "poll") =>
          IF nodeIndex >= ParseUint(indexParam)
          THEN wpc' = "done" /\ wOutcome' = "index"
          ELSE wpc' = "aborted?" /\ body' = body /\ status' = status
    /\ (wpc = "aborted?" /\ wpc' # "aborted?") =>
          IF aborted = 1
          THEN wpc' = "done" /\ wOutcome' = "aborted"
          ELSE wpc' = "timedOut?"
    /\ (wpc = "timedOut?" /\ wpc' # "timedOut?") =>
          IF timedOut = 1
          THEN wpc' = "done" /\ wOutcome' = "timeout"
          ELSE wpc' = "sleep"
    /\ (wpc # "done" /\ wpc' = "done" /\ ParseUint(indexParam) > 0) =>
          wpc \in {"poll", "aborted?", "timedOut?"}

\* C32: a wait request with a target above zero ends with exactly one of
\* three outcomes: a body with the index read and status 200, status 408
\* with no body, or nothing written; never a body together with status 408.
\* Each poll looks at the index first, then at the aborted flag, then at the
\* timed-out flag: a poll that reads the index at or above the target
\* answers success whatever the flags are.
C32_OneOutcomeByPriority ==
    /\ []C32_OneOutcome
    /\ [][C32_PollStep]_vars

C32_Witness ==
    /\ wpc = "done" /\ wOutcome = "index"
    /\ timedOut = 1 /\ aborted = 0
    /\ timer = "fired" /\ sinceFire > 0
    /\ status = StatusOK
    /\ body = <<[kind |-> "index", data |-> <<idxAtExit>>]>>

\* C33: once the request has completed, no helper task is blocked for good:
\* the timer task is not left receiving from the channel of a timer that was
\* stopped before it fired, on which no value will ever be sent.
C33_NoTaskBlockedOnStoppedTimer ==
    wpc = "done" => ~(timerG = "recv" /\ timer = "stopped" /\ timerC = 0)

====
